---------------------------- MODULE Spec2Model ----------------------------
(***************************************************************************)
(* ai-tasks-board runtime: the Board Document Model (board_md.py) and the  *)
(* Codex session reconciliation pass (sessions/codex.py, sessions/state.py)*)
(*                                                                         *)
(* Text is a sequence of lexemes.  A lexeme is a record [k, v]: k is its   *)
(* kind, v its value.  Offsets are Python offsets (0-based) counted in     *)
(* lexemes.  The two region markers are two lexemes long (the opening "<"  *)
(* and the rest), because the code can compute an offset that lies one     *)
(* position inside AUTO_END (section_start = heading_end + 1).             *)
(***************************************************************************)
EXTENDS Integers, Sequences, FiniteSets, TLC

VARIABLES
    content,        \* SpecBoard: the board text the pure operations act on
    content0,       \* SpecBoard: the board text before the first operation
    lastOp,         \* SpecBoard: the last operation, whether it raised, the operations so far
    toolkit,        \* SpecTools: the archive file, and the last BoardToolkit call and its end
    call,           \* SpecCalls: the call of a pure function: its arguments and its result
    tmpFiles,       \* the .tmp files next to the JSON files: target -> <<text>> or <<>>
    boardFile,      \* <vault>/Tasks/Boards/Board.md  (<<text>> or <<>> = no file)
    history,        \* the snapshots under History/Boards, oldest first
    artifacts,      \* Tasks/Sessions/codex/<sid>.json : sid -> <<payload>> or <<>>
    rollouts,       \* the raw logs: file -> <<[mtime]>> or <<>>
    now,            \* time.time(), in seconds
    state,          \* the SessionsState object the caller passes to every pass
    stateFile,      \* .ai-tasks/sessions-state.json
    match_mode,     \* the match_mode argument of the passes
    pc,             \* where the pass is: idle, loop, write_board, save
    pass            \* the locals of the running pass

vars == <<content, content0, lastOp, toolkit, call, tmpFiles, boardFile, history, artifacts, rollouts,
          now, state, stateFile, match_mode, pc, pass>>

-----------------------------------------------------------------------------
(* Python helpers on sequences *)

NONE == "none"

Min2(a, b) == IF a <= b THEN a ELSE b
Max2(a, b) == IF a >= b THEN a ELSE b

\* s[i:j]
Slice(s, i, j) ==
    LET a == Max2(0, Min2(i, Len(s)))
        b == Max2(0, Min2(j, Len(s)))
    IN IF b <= a THEN <<>> ELSE SubSeq(s, a + 1, b)

\* s.find(pat, from): the first offset >= from where pat occurs, or -1
Find(s, pat, from) ==
    LET hits == {at \in from .. Len(s) - Len(pat) : \A i \in 1 .. Len(pat) : s[at + i] = pat[i]}
    IN IF hits = {} THEN -1 ELSE CHOOSE at \in hits : \A other \in hits : at <= other

\* pat in s
Contains(s, pat) == Find(s, pat, 0) # -1

\* s.split(sep) for a one-lexeme separator: the pieces between the separators
Split(s, sep) ==
    LET IsSep(i) == s[i] = sep
        \* the places of the separators, in order
        seps == SelectSeq([i \in 1 .. Len(s) |-> i], IsSep)
        n == Len(seps)
    IN [k \in 1 .. n + 1 |->
           SubSeq(s, (IF k = 1 THEN 0 ELSE seps[k - 1]) + 1,
                     (IF k = n + 1 THEN Len(s) + 1 ELSE seps[k]) - 1)]

RECURSIVE Join(_, _)
\* sep.join(parts) for a separator given as text
Join(parts, sep) ==
    IF Len(parts) = 0 THEN <<>>
    ELSE IF Len(parts) = 1 THEN parts[1]
    ELSE LET mid == Len(parts) \div 2
         IN Join(SubSeq(parts, 1, mid), sep) \o sep
            \o Join(SubSeq(parts, mid + 1, Len(parts)), sep)

RECURSIVE RStrip(_, _)
\* s.rstrip(ch)
RStrip(s, ch) ==
    IF Len(s) > 0 /\ s[Len(s)] = ch THEN RStrip(SubSeq(s, 1, Len(s) - 1), ch) ELSE s

EndsWith(s, ch) == Len(s) > 0 /\ s[Len(s)] = ch

\* [x for x in s if keep(x)]
RECURSIVE FilterNonEmpty(_)
FilterNonEmpty(parts) ==
    IF Len(parts) = 0 THEN <<>>
    ELSE IF Head(parts) = <<>> THEN FilterNonEmpty(Tail(parts))
    ELSE <<Head(parts)>> \o FilterNonEmpty(Tail(parts))

\* str.lower() on the one-letter identifiers of the model
LowerStr(v) == CASE v = "A" -> "a" [] v = "B" -> "b" [] OTHER -> v
LowerTok(t) == [k |-> t.k, v |-> LowerStr(t.v)]
LowerText(s) == [i \in 1 .. Len(s) |-> LowerTok(s[i])]

\* name = value, then the statements that use the name: Op applied to the value v
With(v, Op(_)) == Op(v)

Ok(v) == [ok |-> TRUE, val |-> v]
Raise == [ok |-> FALSE, val |-> <<>>]

-----------------------------------------------------------------------------
(* The lexemes of a board *)

Tok(k, v) == [k |-> k, v |-> v]
NL == Tok("nl", "")                 \* "\n"
LT == Tok("lt", "")                 \* the "<" that opens a region marker
AUTO_BEGIN == <<LT, Tok("ab", "")>> \* "<!-- AI-TASKS:BEGIN -->"
AUTO_END == <<LT, Tok("ae", "")>>   \* "<!-- AI-TASKS:END -->"
H2 == Tok("h2", "")                 \* "## "
St(s) == Tok("st", s)               \* a status word
TB(id) == Tok("tb", id)             \* "<!-- AI-TASKS:TASK <id> BEGIN -->"
TE(id) == Tok("te", id)             \* "<!-- AI-TASKS:TASK <id> END -->"
Q == Tok("q", "")                   \* ">" (with its following blank, if any)
CALLOUT == Tok("co", "todo")        \* "[!todo]"
F(name) == Tok("f", name)           \* "<name>::"
COMMA == Tok("c", "")               \* ","
W(w) == Tok("w", w)                 \* a word of free text
REF(sid) == Tok("ref", sid)         \* "codex:<sid>"
TS == Tok("ts", "")                 \* an ISO timestamp
L(name) == Tok("l", name)           \* a label of a generated body ("Session:", "- user:")

STATUSES == <<"Unassigned", "Todo", "Doing", "Review", "Done">>
StatusSet == {STATUSES[i] : i \in 1 .. Len(STATUSES)}

\* the text of a status field or heading, as the string normalize_status receives
StatusText(s) == IF Len(s) = 1 /\ s[1].k = "st" THEN s[1].v ELSE "?"

normalize_status(s) == IF s \in StatusSet THEN s ELSE NONE

build_default_board_markdown ==
    <<W("front matter"), NL, NL, W("# AI Tasks Board"), NL, NL>>
    \o AUTO_BEGIN \o <<NL>>
    \o <<H2, St("Unassigned"), NL, NL>>
    \o <<H2, St("Todo"), NL, NL>>
    \o <<H2, St("Doing"), NL, NL>>
    \o <<H2, St("Review"), NL, NL>>
    \o <<H2, St("Done"), NL>>
    \o AUTO_END \o <<NL>>

-----------------------------------------------------------------------------
(* board_md.py: parsing *)

\* the lines of a block, as block.splitlines() gives them (no trailing empty line)
splitlines(block) ==
    With(Split(block, NL), LAMBDA ls :
        IF Len(ls) > 0 /\ ls[Len(ls)] = <<>> THEN SubSeq(ls, 1, Len(ls) - 1) ELSE ls)

\* ^>\s*<name>::  at the start of a line
IsFieldLine(line, name) == Len(line) >= 2 /\ line[1] = Q /\ line[2] = F(name)

\* ^>\s*\[![^\]]+\]  at the start of a line
IsCalloutLine(line) == Len(line) >= 2 /\ line[1] = Q /\ line[2].k = "co"

\* the first index i of lines with P(lines[i]), or 0
FirstLine(lines, P(_)) ==
    LET hits == {i \in 1 .. Len(lines) : P(lines[i])}
    IN IF hits = {} THEN 0 ELSE CHOOSE i \in hits : \A j \in hits : i <= j

_parse_title(block) ==
    LET IsTitle(line) == IsCalloutLine(line) /\ Len(line) >= 3
    IN With(splitlines(block), LAMBDA lines :
       With(FirstLine(lines, IsTitle), LAMBDA i :
           IF i = 0 THEN <<W("(Untitled)")>> ELSE Slice(lines[i], 2, Len(lines[i]))))

_parse_tags(block) ==
    LET IsTags(line) == IsFieldLine(line, "tags") /\ Len(line) >= 3
    IN With(splitlines(block), LAMBDA lines :
       With(FirstLine(lines, IsTags), LAMBDA i :
           IF i = 0 THEN <<>>
           ELSE FilterNonEmpty(Split(Slice(lines[i], 2, Len(lines[i])), COMMA))))

_parse_status_field(block) ==
    LET IsStatus(line) == IsFieldLine(line, "status") /\ Len(line) >= 3
    IN With(splitlines(block), LAMBDA lines :
       With(FirstLine(lines, IsStatus), LAMBDA i :
           IF i = 0 THEN NONE
           ELSE normalize_status(StatusText(Slice(lines[i], 2, Len(lines[i]))))))

\* a find_auto_area that takes the end of the text for a missing END marker
C10_find_auto_area_M(text) ==
    LET begin_idx == Find(text, AUTO_BEGIN, 0)
        found == Find(text, AUTO_END, 0)
        end_idx == IF found = -1 THEN Len(text) ELSE found
    IN IF begin_idx = -1 \/ end_idx <= begin_idx
       THEN [ok |-> FALSE, auto_start |-> 0, auto_end |-> 0]
       ELSE [ok |-> TRUE, auto_start |-> begin_idx + Len(AUTO_BEGIN), auto_end |-> end_idx]

\* [ok, auto_start, auto_end]; ok = FALSE is the ValueError
find_auto_area(text) ==
    LET begin_idx == Find(text, AUTO_BEGIN, 0)
        end_idx == Find(text, AUTO_END, 0)
    IN IF begin_idx = -1 \/ end_idx = -1 \/ end_idx <= begin_idx
       THEN [ok |-> FALSE, auto_start |-> 0, auto_end |-> 0]
       ELSE [ok |-> TRUE, auto_start |-> begin_idx + Len(AUTO_BEGIN), auto_end |-> end_idx]

\* the characters lines[lo .. hi] take in the text, each with its "\n"
RECURSIVE SpanOf(_, _, _)
SpanOf(lines, lo, hi) ==
    IF lo > hi THEN 0
    ELSE IF lo = hi THEN Len(lines[lo]) + 1
    ELSE SpanOf(lines, lo, (lo + hi) \div 2) + SpanOf(lines, (lo + hi) \div 2 + 1, hi)

RECURSIVE Headings(_, _, _, _)
\* the (status, start, end) of every status heading among lines[lo .. hi]; offset is the
\* offset of lines[lo].  The loop of lines 178-186, taken by halves.
Headings(lines, lo, hi, offset) ==
    IF lo > hi THEN <<>>
    ELSE IF lo = hi
    THEN LET line == lines[lo]
             status == IF Len(line) >= 1 /\ line[1] = H2
                       THEN normalize_status(StatusText(Tail(line)))
                       ELSE NONE
         IN IF status # NONE
            THEN <<[status |-> status, start |-> offset, end |-> offset + Len(line)]>>
            ELSE <<>>
    ELSE LET mid == (lo + hi) \div 2
         IN Headings(lines, lo, mid, offset)
            \o Headings(lines, mid + 1, hi, offset + SpanOf(lines, lo, mid))

\* no newline after the END marker is taken into the block
C22_ExpandEnd_M(text, end_abs) == end_abs

\* end_abs_expanded: up to two newlines after the END marker belong to the block
ExpandEnd(text, end_abs) ==
    LET IsNl(p) == p < Len(text) /\ text[p + 1] = NL
    IN IF IsNl(end_abs) THEN (IF IsNl(end_abs + 1) THEN end_abs + 2 ELSE end_abs + 1)
       ELSE end_abs

RECURSIVE SectionTasks(_, _, _, _, _)
\* the TaskBlocks of one section: every BEGIN marker at or after begin_rel that has its END
SectionTasks(text, status, section_start, section_text, from) ==
    LET begins == {i \in from .. Len(section_text) - 1 : section_text[i + 1].k = "tb"}
    IN IF begins = {} THEN <<>>
       ELSE With(CHOOSE i \in begins : \A j \in begins : i <= j, LAMBDA begin_rel :
            With(section_text[begin_rel + 1].v, LAMBDA tuid :
            With(Find(section_text, <<TE(tuid)>>, begin_rel), LAMBDA end_rel :
            With(ExpandEnd(text, section_start + end_rel + 1), LAMBDA end_abs_expanded :
            With(Slice(text, section_start + begin_rel, end_abs_expanded), LAMBDA raw_block :
            With(_parse_status_field(raw_block), LAMBDA parsed_status :
                (IF end_rel = -1 THEN <<>>
                 ELSE <<[uuid |-> LowerStr(tuid),
                         title |-> _parse_title(raw_block),
                         status |-> IF parsed_status # NONE THEN parsed_status ELSE status,
                         tags |-> _parse_tags(raw_block),
                         raw |-> raw_block,
                         start |-> section_start + begin_rel,
                         end |-> end_abs_expanded]>>)
                \o SectionTasks(text, status, section_start, section_text,
                                begin_rel + 1)))))))

\* the Section built for heading i
SectionAt(text, headings, i, auto_end) ==
    LET h == headings[i]
        section_start == h.end + 1
        section_end == IF i + 1 <= Len(headings) THEN headings[i + 1].start ELSE auto_end
        section_text == Slice(text, section_start, section_end)
    IN [status |-> h.status,
        heading_start |-> h.start,
        heading_end |-> h.end,
        section_start |-> section_start,
        section_end |-> section_end,
        tasks |-> SectionTasks(text, h.status, section_start, section_text, 0)]

\* sections[status] = Section(...) in heading order: a dict keeps the place of a key's
\* first assignment and the value of its last
SectionsDict(text, headings, auto_end) ==
    LET n == Len(headings)
        firsts == {i \in 1 .. n : \A j \in 1 .. i - 1 : headings[j].status # headings[i].status}
        LastOf(i) == CHOOSE j \in 1 .. n :
                        /\ headings[j].status = headings[i].status
                        /\ \A m \in j + 1 .. n : headings[m].status # headings[i].status
        RECURSIVE Build(_)
        Build(i) == IF i > n THEN <<>>
                    ELSE (IF i \in firsts
                          THEN <<SectionAt(text, headings, LastOf(i), auto_end)>>
                          ELSE <<>>) \o Build(i + 1)
    IN Build(1)

\* ParsedBoard; ok = FALSE is the ValueError of find_auto_area
parse_board(text) ==
    With(find_auto_area(text), LAMBDA area :
        IF ~area.ok
        THEN [ok |-> FALSE, auto_start |-> 0, auto_end |-> 0, sections |-> <<>>]
        ELSE LET auto == Slice(text, area.auto_start, area.auto_end)
                 lines == Split(auto, NL)
                 headings == Headings(lines, 1, Len(lines), area.auto_start)
             IN [ok |-> TRUE, auto_start |-> area.auto_start, auto_end |-> area.auto_end,
                 sections |-> SectionsDict(text, headings, area.auto_end)])

RECURSIVE Flatten(_)
Flatten(seqs) == IF Len(seqs) = 0 THEN <<>> ELSE Head(seqs) \o Flatten(Tail(seqs))

\* [t for sec in parsed.sections.values() for t in sec.tasks]
AllTasks(parsed) == Flatten([i \in 1 .. Len(parsed.sections) |-> parsed.sections[i].tasks])

HasTask(parsed, tuid) == \E i \in 1 .. Len(AllTasks(parsed)) : AllTasks(parsed)[i].uuid = tuid

\* the first task with this uuid, in the order the loops visit them
FindTask(parsed, tuid) ==
    LET ts == AllTasks(parsed)
        hits == {i \in 1 .. Len(ts) : ts[i].uuid = tuid}
    IN ts[CHOOSE i \in hits : \A j \in hits : i <= j]

HasSection(parsed, status) ==
    \E i \in 1 .. Len(parsed.sections) : parsed.sections[i].status = status

\* parsed.sections.get(status)
SectionGet(parsed, status) ==
    parsed.sections[CHOOSE i \in 1 .. Len(parsed.sections) : parsed.sections[i].status = status]

-----------------------------------------------------------------------------
(* board_md.py: building and splicing *)

\* "> " + bl, or ">" for a blank line
BodyLine(bl) == IF bl = <<>> THEN <<Q>> ELSE <<Q>> \o bl

\* st = normalize_status(status) or "Unassigned"
BlockStatus(status) ==
    IF normalize_status(status) # NONE THEN normalize_status(status) ELSE "Unassigned"

\* task_uuid = NONE draws uuid4(): fresh is the identifier drawn.
\* title, body: text; tags, sessions: lists of text
build_task_block(task_uuid, fresh, title, status, tags, body, sessions) ==
    LET tuid == LowerStr(IF task_uuid # NONE THEN task_uuid ELSE fresh)
        st == BlockStatus(status)
        body_lines == Split(body, NL)
        lines ==
            <<  <<TB(tuid)>>,
                <<Q, CALLOUT>> \o (IF title # <<>> THEN title ELSE <<W("(Untitled)")>>),
                <<Q, F("status"), St(st)>> >>
            \o (IF Len(tags) > 0 THEN << <<Q, F("tags")>> \o Join(tags, <<COMMA>>) >> ELSE <<>>)
            \o (IF Len(sessions) > 0
                THEN << <<Q, F("sessions")>> \o Join(sessions, <<COMMA>>) >> ELSE <<>>)
            \o << <<Q, F("created"), TS>>, <<Q>> >>
            \o [i \in 1 .. Len(body_lines) |-> BodyLine(body_lines[i])]
            \o << <<TE(tuid)>> >>
    IN Join(lines, <<NL>>) \o <<NL>>

\* the offset to insert at; ok = FALSE is the ValueError "Missing status section"
_find_insertion_point(parsed, to_status, before_uuid) ==
    LET status == IF normalize_status(to_status) # NONE THEN normalize_status(to_status)
                  ELSE "Unassigned"
        section == SectionGet(parsed, status)
        hits == {i \in 1 .. Len(section.tasks) :
                    before_uuid # NONE /\ section.tasks[i].uuid = LowerStr(before_uuid)}
    IN IF ~HasSection(parsed, status) THEN Raise
       ELSE IF hits # {}
       THEN Ok(section.tasks[CHOOSE i \in hits : \A j \in hits : i <= j].start)
       ELSE IF Len(section.tasks) > 0 THEN Ok(section.tasks[Len(section.tasks)].end)
       ELSE Ok(section.section_start)

\* the new text, or the ValueError
insert_task_block(text, to_status, before_uuid, block) ==
    With(parse_board(text), LAMBDA parsed :
        IF ~parsed.ok THEN Raise
        ELSE With(_find_insertion_point(parsed, to_status, before_uuid), LAMBDA at :
            IF ~at.ok THEN Raise
            ELSE LET prefix == Slice(text, 0, at.val)
                     suffix == Slice(text, at.val, Len(text))
                     needs_leading_nl == prefix # <<>> /\ ~EndsWith(prefix, NL)
                     needs_trailing_nl == ~EndsWith(block, NL)
                     final_block == (IF needs_leading_nl THEN <<NL>> ELSE <<>>) \o block
                                    \o (IF needs_trailing_nl THEN <<NL>> ELSE <<>>)
                 IN Ok(prefix \o final_block \o suffix)))

\* a newline is put after the block whether it ends with one or not
C19_replace_task_block_M(text, task_uuid, block) ==
    LET tuid == LowerStr(task_uuid)
        final_block == block \o <<NL>>
    IN With(parse_board(text), LAMBDA parsed :
           IF ~parsed.ok THEN Raise
           ELSE IF ~HasTask(parsed, tuid) THEN Raise
           ELSE With(FindTask(parsed, tuid), LAMBDA existing :
               Ok(Slice(text, 0, existing.start) \o final_block
                  \o Slice(text, existing.end, Len(text)))))

\* the new text, or the ValueError (markers, or "Task not found")
replace_task_block(text, task_uuid, block) ==
    LET tuid == LowerStr(task_uuid)
        final_block == IF EndsWith(block, NL) THEN block ELSE block \o <<NL>>
    IN With(parse_board(text), LAMBDA parsed :
           IF ~parsed.ok THEN Raise
           ELSE IF ~HasTask(parsed, tuid) THEN Raise
           ELSE With(FindTask(parsed, tuid), LAMBDA existing :
               Ok(Slice(text, 0, existing.start) \o final_block
                  \o Slice(text, existing.end, Len(text)))))

\* lines with new_line inserted after index i (lines.insert(i + 1, new_line), 0-based i)
InsertLine(lines, i, new_line) ==
    SubSeq(lines, 1, Min2(i, Len(lines))) \o <<new_line>>
    \o SubSeq(lines, Min2(i, Len(lines)) + 1, Len(lines))

\* session_ref: text, <<>> when blank
add_session_ref_to_block(block, session_ref) ==
    LET ref == session_ref
        IsSessions(line) == IsFieldLine(line, "sessions")
        IsTags(line) == IsFieldLine(line, "tags")
        IsStatus(line) == IsFieldLine(line, "status")
    IN IF ref = <<>> THEN block
       ELSE With(Split(block, NL), LAMBDA lines :
            With(FirstLine(lines, IsSessions), LAMBDA sessions_idx :
               IF sessions_idx # 0
               THEN With(FilterNonEmpty(Split(Slice(lines[sessions_idx], 2,
                                                    Len(lines[sessions_idx])), COMMA)),
                         LAMBDA existing :
                       IF \E i \in 1 .. Len(existing) : LowerText(existing[i]) = LowerText(ref)
                       THEN (IF EndsWith(block, NL) THEN block ELSE block \o <<NL>>)
                       ELSE RStrip(Join([lines EXCEPT ![sessions_idx] =
                                            <<Q, F("sessions")>>
                                            \o Join(Append(existing, ref), <<COMMA>>)],
                                        <<NL>>), NL) \o <<NL>>)
               \* the 1-based index of the line to insert after; 1 is Python's insert_after = 0
               ELSE With(IF FirstLine(lines, IsTags) # 0 THEN FirstLine(lines, IsTags)
                         ELSE IF FirstLine(lines, IsStatus) # 0 THEN FirstLine(lines, IsStatus)
                         ELSE IF FirstLine(lines, IsCalloutLine) # 0
                         THEN FirstLine(lines, IsCalloutLine)
                         ELSE 1,
                         LAMBDA insert_after :
                       RStrip(Join(InsertLine(lines, insert_after, <<Q, F("sessions")>> \o ref),
                                   <<NL>>), NL) \o <<NL>>)))

-----------------------------------------------------------------------------
(* board_md.py: remove, move and the status rewrite.  board_toolkit.py imports  *)
(* them from board_md, whose source does not define them: they follow the      *)
(* specification's section 4.1.                                                *)

\* "Field rewrites": replace the status line, or insert it after the header line
rewrite_status_field(block, status) ==
    LET IsStatus(line) == IsFieldLine(line, "status")
        new_line == <<Q, F("status"), St(status)>>
    IN With(Split(block, NL), LAMBDA lines :
       With(FirstLine(lines, IsStatus), LAMBDA i :
       With(FirstLine(lines, IsCalloutLine), LAMBDA header :
           IF i # 0 THEN Join([lines EXCEPT ![i] = new_line], <<NL>>)
           ELSE Join(InsertLine(lines, IF header # 0 THEN header ELSE 1, new_line), <<NL>>))))

\* "Remove": the lookup of replace; [ok, removed, val]: the block removed and the text left
remove_task_block(text, task_uuid) ==
    LET tuid == LowerStr(task_uuid)
    IN With(parse_board(text), LAMBDA parsed :
           IF ~parsed.ok \/ ~HasTask(parsed, tuid)
           THEN [ok |-> FALSE, removed |-> <<>>, val |-> <<>>]
           ELSE With(FindTask(parsed, tuid), LAMBDA existing :
               [ok |-> TRUE, removed |-> existing.raw,
                val |-> Slice(text, 0, existing.start)
                        \o Slice(text, existing.end, Len(text))]))

\* "Move": remove, rewrite the status field to the destination, insert at the destination
move_task_block(text, task_uuid, to_status, before_uuid) ==
    LET st == IF normalize_status(to_status) # NONE THEN normalize_status(to_status)
              ELSE "Unassigned"
    IN With(remove_task_block(text, task_uuid), LAMBDA rem :
           IF ~rem.ok THEN Raise
           ELSE insert_task_block(rem.val, st, before_uuid,
                                  rewrite_status_field(rem.removed, st)))

-----------------------------------------------------------------------------
(* SpecBoard: any sequence of board operations on a board text *)

MaxTasks == 2
MaxOps == 3

\* the identifiers uuid4() draws, in the order the model draws them
IdPool == <<"n1", "n2", "n3", "n4", "n5">>

TaskMarkers(text) == {i \in 1 .. Len(text) : text[i].k = "tb"}
IdsIn(text) == {LowerStr(text[i].v) : i \in TaskMarkers(text)}

\* uuid4(): an identifier no block of the text carries
FreshId(text) ==
    IdPool[CHOOSE i \in 1 .. Len(IdPool) :
              /\ IdPool[i] \notin IdsIn(text)
              /\ \A j \in 1 .. i - 1 : IdPool[j] \in IdsIn(text)]

Region(sections) == AUTO_BEGIN \o <<NL>> \o sections \o AUTO_END

FiveSections ==
    <<H2, St("Unassigned"), NL, NL, H2, St("Todo"), NL, NL, H2, St("Doing"), NL, NL,
      H2, St("Review"), NL, NL, H2, St("Done"), NL>>

TaskA == build_task_block("a", "a", <<W("fix"), W("login")>>, "Todo", <<>>, <<>>, <<>>)

\* a board with one task, as insert_task_block leaves it
BoardWithTask == insert_task_block(build_default_board_markdown, "Todo", NONE, TaskA).val

\* a board whose last heading is followed by AUTO_END on the same line
BoardAbutting ==
    <<W("pre"), NL>> \o Region(<<H2, St("Unassigned"), NL, NL, H2, St("Done")>>)
    \o <<NL, W("post"), NL>>

\* boards with a missing region marker, or with the markers out of order
BoardNoEnd == <<W("pre"), NL>> \o AUTO_BEGIN \o <<NL>> \o FiveSections
BoardNoBegin == <<W("pre"), NL>> \o FiveSections \o AUTO_END \o <<NL>>
BoardSwapped == AUTO_END \o <<NL>> \o FiveSections \o AUTO_BEGIN \o <<NL>>

MalformedBoards == {BoardNoEnd, BoardNoBegin, BoardSwapped}

InitBoards == {build_default_board_markdown, BoardWithTask, BoardAbutting} \cup MalformedBoards

OpStatuses == {"Todo", "Done", "Nowhere"}
OpUuids == {"a", "n1", "zz"}
OpBefore == {NONE, "a"}
\* the task_uuid argument of build_task_block: None (uuid4 draws one), or the caller's
OpTaskUuids == {NONE, "A"}
OpTitles == {<<W("fix")>>, <<>>}

\* insert_task_block with a block built for block_status; BoardToolkit.board_create_task
\* is the call with block_status = to_status
InsertOp(task_uuid, to_status, block_status, before_uuid, title) ==
    LET block == build_task_block(task_uuid, FreshId(content), title, block_status,
                                  <<>>, <<>>, <<>>)
        r == insert_task_block(content, to_status, before_uuid, block)
    IN /\ lastOp.n < MaxOps
       /\ Cardinality(TaskMarkers(content)) < MaxTasks
       /\ content' = IF r.ok THEN r.val ELSE content
       /\ lastOp' = [op |-> "insert", ok |-> r.ok, n |-> lastOp.n + 1]

ReplaceOp(task_uuid) ==
    LET block == With(parse_board(content), LAMBDA parsed :
                     IF parsed.ok /\ HasTask(parsed, task_uuid)
                     THEN add_session_ref_to_block(FindTask(parsed, task_uuid).raw,
                                                   <<REF("s1")>>)
                     ELSE TaskA)
    IN With(replace_task_block(content, task_uuid, block), LAMBDA r :
           /\ lastOp.n < MaxOps
           /\ content' = IF r.ok THEN r.val ELSE content
           /\ lastOp' = [op |-> "replace", ok |-> r.ok, n |-> lastOp.n + 1])

RemoveOp(task_uuid) ==
    LET r == remove_task_block(content, task_uuid)
    IN /\ lastOp.n < MaxOps
       /\ content' = IF r.ok THEN r.val ELSE content
       /\ lastOp' = [op |-> "remove", ok |-> r.ok, n |-> lastOp.n + 1]

MoveOp(task_uuid, to_status, before_uuid) ==
    LET r == move_task_block(content, task_uuid, to_status, before_uuid)
    IN /\ lastOp.n < MaxOps
       /\ content' = IF r.ok THEN r.val ELSE content
       /\ lastOp' = [op |-> "move", ok |-> r.ok, n |-> lastOp.n + 1]

SyncVars == <<boardFile, history, artifacts, rollouts, now, state, stateFile, match_mode,
              pc, pass>>
BoardVars == <<content, content0, lastOp, toolkit, call, tmpFiles>>

-----------------------------------------------------------------------------
(* sessions/codex.py: the helpers of a pass *)

\* the session reference f"codex:{session_id}"
SessionRef(sid) == <<REF(sid)>>

\* a message is [role, text]; the harness marks its own with a leading lexeme of kind "hx"
_is_harness_context_message(text) == text = <<>> \/ text[1].k = "hx"

_select_snippets(messages, max_snippets) ==
    LET NotHarness(m) == ~_is_harness_context_message(m.text)
        f0 == SelectSeq(messages, NotHarness)
        filtered == IF f0 = <<>> THEN messages ELSE f0
        n == Len(filtered)
        tail == SubSeq(filtered, n - max_snippets + 1, n)
        head == filtered[1]
        head_in_tail == \E i \in 1 .. Len(tail) : tail[i] = head
    IN IF n <= max_snippets THEN filtered
       ELSE IF ~head_in_tail THEN <<head>> \o SubSeq(tail, 1, Len(tail) - 1)
       ELSE tail

\* a line of a raw log: json says what json.loads makes of it ("blank": nothing to load,
\* "bad": it raises, "value": a list, number, string or null, "object": a dict); for a dict,
\* ts is its "timestamp" (NONE: absent or no string), type its "type", pdict whether its
\* "payload" is a dict, and p_ts, ptype, role, text what the payload holds
LogLine(json, ts, type, pdict, p_ts, ptype, role, text) ==
    [json |-> json, ts |-> ts, type |-> type, pdict |-> pdict, p_ts |-> p_ts,
     ptype |-> ptype, role |-> role, text |-> text]

\* _redact: a secret of a known shape is replaced
_redact(text) ==
    [i \in 1 .. Len(text) |-> IF text[i].k = "secret" THEN W("sk-REDACTED") ELSE text[i]]

NoParse == [meta |-> NONE, messages |-> <<>>, started_at |-> NONE, ended_at |-> NONE,
            raised |-> FALSE]

\* one turn of the loop over the lines of parse_rollout_messages
ParseLine(acc, line) ==
    IF acc.raised \/ line.json \in {"blank", "bad"} THEN acc
    ELSE IF line.json # "object" THEN [acc EXCEPT !.raised = TRUE]
    ELSE With([acc EXCEPT !.ended_at = IF line.ts # NONE THEN line.ts ELSE @], LAMBDA a :
        IF line.type = "session_meta" /\ line.pdict
        THEN [a EXCEPT !.started_at = IF line.p_ts # NONE THEN line.p_ts ELSE @,
                       !.meta = line.p_ts]
        ELSE IF line.type # "response_item" \/ ~line.pdict THEN a
        ELSE IF line.ptype # "message" THEN a
        ELSE IF line.role \notin {"user", "assistant"} THEN a
        ELSE IF line.text = <<>> THEN a
        ELSE [a EXCEPT !.messages =
                 Append(@, [role |-> line.role, ts |-> line.ts, text |-> _redact(line.text)])])

RECURSIVE ParseLines(_, _)
ParseLines(acc, lines) ==
    IF lines = <<>> THEN acc ELSE ParseLines(ParseLine(acc, Head(lines)), Tail(lines))

\* (meta, messages, started_at, ended_at) of the lines of a raw log, or the exception
parse_rollout_messages(lines) ==
    With(ParseLines(NoParse, lines), LAMBDA p :
        IF p.raised THEN Raise
        ELSE Ok([meta |-> p.meta, messages |-> p.messages,
                 started_at |-> IF p.started_at = NONE THEN p.ended_at ELSE p.started_at,
                 ended_at |-> p.ended_at]))

\* the first line of the first user message that is not the harness's; <<>> is None
_fallback_summary(messages) ==
    LET IsUser(m) == m.role = "user" /\ ~_is_harness_context_message(m.text)
    IN With(SelectSeq(messages, IsUser), LAMBDA filtered :
           IF filtered = <<>> THEN <<>>
           ELSE With(splitlines(filtered[1].text), LAMBDA first_lines :
               IF first_lines = <<>> THEN <<>> ELSE Slice(first_lines[1], 0, 120)))

\* a short title from a summary: its first line, cut to max_len with "..."
_compact_title(text, fallback, max_len) ==
    LET cut == Max2(1, max_len - 3)
    IN With(splitlines(text), LAMBDA lines :
       With(IF lines = <<>> THEN <<>> ELSE lines[1], LAMBDA s :
           IF text = <<>> \/ s = <<>> THEN fallback
           ELSE IF Len(s) > max_len THEN Slice(s, 0, cut) \o <<W("...")>>
           ELSE s))

\* the words a lexeme contributes to _tokenize (runs of [a-z0-9_-] of length >= 2)
WordsOf(t) ==
    CASE t.k = "w" -> {t.v}
      [] t.k = "ae" -> {"--", "ai-tasks", "end"}
      [] t.k = "ab" -> {"--", "ai-tasks", "begin"}
      [] t.k = "l" -> {t.v}
      [] t.k = "ref" -> {"codex", t.v}
      [] OTHER -> {}

\* the token set of a text (the code keeps a de-duplicated list; only the set is used)
_tokenize(text) == UNION {WordsOf(text[i]) : i \in 1 .. Len(text)}

\* the intersection counted against the first set alone
C20_jaccard_M(a, b) ==
    IF a = {} \/ b = {} THEN [num |-> 0, den |-> 1]
    ELSE [num |-> Cardinality(a \cap b), den |-> Cardinality(a)]

\* set(tokens)
TokenSet(tokens) == {tokens[i] : i \in 1 .. Len(tokens)}

\* a and b are set(a_tokens) and set(b_tokens)
\* the score as a fraction [num, den]; 0.0 is [0, 1]
_jaccard(a, b) ==
    IF a = {} \/ b = {} THEN [num |-> 0, den |-> 1]
    ELSE [num |-> Cardinality(a \cap b), den |-> Cardinality(a \cup b)]

\* x > y and x >= y on fractions
FracGt(x, y) == x.num * y.den > y.num * x.den
FracGe(x, y) == x.num * y.den >= y.num * x.den

\* summary, then "role: text" for the first six snippets, one per line
_session_text(payload) ==
    LET sn == SubSeq(payload.snippets, 1, Min2(6, Len(payload.snippets)))
        parts == (IF payload.summary # <<>> THEN <<payload.summary>> ELSE <<>>)
                 \o [i \in 1 .. Len(sn) |-> <<L(sn[i].role)>> \o sn[i].text]
    IN Join(parts, <<NL>>)

RECURSIVE BestOf(_, _, _, _)
\* the loop of _best_task_match over tasks[i..]
BestOf(tasks, s_tokens, i, best) ==
    IF i > Len(tasks) THEN best
    ELSE LET t == tasks[i]
             t_text == Join(<<t.title>> \o t.tags, <<W(" ")>>)
             score == _jaccard(s_tokens, _tokenize(t_text))
         IN BestOf(tasks, s_tokens, i + 1,
                   IF FracGt(score, best.score) THEN [uuid |-> t.uuid, score |-> score] ELSE best)

\* (best uuid or NONE, best score)
_best_task_match(board_content, session_payload) ==
    LET zero == [uuid |-> NONE, score |-> [num |-> 0, den |-> 1]]
    IN With(AllTasks(parse_board(board_content)), LAMBDA tasks :
       With(_tokenize(_session_text(session_payload)), LAMBDA s_tokens :
           IF tasks = <<>> \/ s_tokens = {} THEN zero ELSE BestOf(tasks, s_tokens, 1, zero)))

\* the sections in the order of the board
C25_PriorityOrder_M == <<"Unassigned", "Todo", "Doing", "Review", "Done">>

PriorityOrder == <<"Doing", "Todo", "Review", "Unassigned", "Done">>

\* the candidates (uuid, title, status, tags), status by status; a task seen is not repeated
\* by the defensive second loop
_list_task_candidates(board_content) ==
    With(parse_board(board_content), LAMBDA parsed :
        LET ByStatus(i) == IF HasSection(parsed, PriorityOrder[i])
                           THEN SectionGet(parsed, PriorityOrder[i]).tasks ELSE <<>>
        IN With(Flatten([i \in 1 .. Len(PriorityOrder) |-> ByStatus(i)]), LAMBDA ordered :
               LET seen == {ordered[i].uuid : i \in 1 .. Len(ordered)}
                   NotSeen(t) == t.uuid \notin seen
               IN ordered \o SelectSeq(AllTasks(parsed), NotSeen)))

\* an answer of the external model: [fail, target, conf]; fail is a timeout, an error or
\* a reply without a JSON object; target NONE is null; conf -1 is a missing confidence,
\* otherwise hundredths
NoAnswer == [uuid |-> NONE, conf |-> -1]

\* the answer taken as it comes, with no test against the candidates
C16_ai_task_match_M(candidates, resp) ==
    IF candidates = <<>> \/ resp.fail THEN NoAnswer
    ELSE [uuid |-> IF resp.target = NONE THEN NONE ELSE LowerStr(resp.target),
          conf |-> resp.conf]

_ai_task_match(candidates, resp) ==
    LET target_uuid == IF resp.target = NONE THEN NONE ELSE LowerStr(resp.target)
        allowed == {candidates[i].uuid : i \in 1 .. Len(candidates)}
    IN IF candidates = <<>> THEN NoAnswer
       ELSE IF resp.fail THEN NoAnswer
       ELSE IF target_uuid # NONE /\ target_uuid \notin allowed
       THEN [uuid |-> NONE, conf |-> resp.conf]
       ELSE [uuid |-> target_uuid, conf |-> resp.conf]

\* full chunks only: what is left over after the last full chunk is dropped
C24_chunked_M(items, size) ==
    LET k == Max2(1, size)
    IN [i \in 1 .. (Len(items) \div k) |-> SubSeq(items, (i - 1) * k + 1, i * k)]

RECURSIVE _chunked(_, _)
_chunked(items, size) ==
    LET k == Max2(1, size)
    IN IF Len(items) = 0 THEN <<>>
       ELSE <<SubSeq(items, 1, Min2(k, Len(items)))>>
            \o _chunked(SubSeq(items, Min2(k, Len(items)) + 1, Len(items)), size)

\* the number of calls _ai_match_task_uuid makes at most: one, or one per chunk and a final
AiCalls(board_content, chunk_size) ==
    LET k == Max2(5, IF chunk_size = 0 THEN 20 ELSE chunk_size)
    IN With(_list_task_candidates(board_content), LAMBDA candidates :
           IF Len(candidates) <= k THEN 1 ELSE Len(_chunked(candidates, k)) + 1)

RECURSIVE Winners(_, _, _, _)
\* the winners dict after chunks[i..]: uuid -> score, as a set of pairs
Winners(chunks, resps, i, winners) ==
    IF i > Len(chunks) THEN winners
    ELSE LET r == _ai_task_match(chunks[i], resps[i])
             score == IF r.conf # -1 THEN r.conf ELSE 0
             prev == {w \in winners : w.uuid = r.uuid}
             keep == \E w \in prev : ~(score > w.score)
         IN Winners(chunks, resps, i + 1,
                    IF r.uuid = NONE \/ keep THEN winners
                    ELSE (winners \ prev) \cup {[uuid |-> r.uuid, score |-> score]})

\* the score winners.get(c[0], 0.0) of a candidate
WinnerScore(winners, c) ==
    IF \E w \in winners : w.uuid = c.uuid
    THEN (CHOOSE w \in winners : w.uuid = c.uuid).score ELSE 0

RECURSIVE SortByScore(_, _)
\* list.sort(key = winner score, reverse = True): stable, descending
SortByScore(cands, winners) ==
    IF Len(cands) = 0 THEN <<>>
    ELSE LET i == CHOOSE i \in 1 .. Len(cands) :
                    /\ \A j \in 1 .. Len(cands) :
                          WinnerScore(winners, cands[i]) >= WinnerScore(winners, cands[j])
                    /\ \A j \in 1 .. i - 1 :
                          WinnerScore(winners, cands[j]) < WinnerScore(winners, cands[i])
         IN <<cands[i]>>
            \o SortByScore(SubSeq(cands, 1, i - 1) \o SubSeq(cands, i + 1, Len(cands)), winners)

\* the winners in the order of the candidate list, not ranked
C23_FinalCandidates_M(candidates, winners) ==
    LET IsWinner(c) == \E w \in winners : w.uuid = c.uuid
    IN SelectSeq(candidates, IsWinner)

\* the candidates of the final call of the tournament
FinalCandidates(candidates, winners) ==
    LET IsWinner(c) == \E w \in winners : w.uuid = c.uuid
    IN SortByScore(SelectSeq(candidates, IsWinner), winners)

\* _ai_match_task_uuid from its candidates on (lines 667-695)
\* resps: the answers of the calls, in the order they are made
MatchAmong(candidates, resps, chunk_size) ==
    LET k == Max2(5, IF chunk_size = 0 THEN 20 ELSE chunk_size)
    IN IF candidates = <<>> THEN NoAnswer
       ELSE IF Len(candidates) <= k THEN _ai_task_match(candidates, resps[1])
       ELSE With(_chunked(candidates, k), LAMBDA chunks :
            With(Winners(chunks, resps, 1, {}), LAMBDA winners :
                IF winners = {} THEN NoAnswer
                ELSE _ai_task_match(FinalCandidates(candidates, winners),
                                    resps[Len(chunks) + 1])))

_ai_match_task_uuid(board_content, resps, chunk_size) ==
    With(_list_task_candidates(board_content), LAMBDA candidates :
        MatchAmong(candidates, resps, chunk_size))

-----------------------------------------------------------------------------
(* sessions/codex.py: linking one session to the board buffer *)

\* "\n".join(body_lines).strip()
RECURSIVE LStrip(_, _)
LStrip(s, ch) == IF Len(s) > 0 /\ s[1] = ch THEN LStrip(Tail(s), ch) ELSE s
StripNl(s) == LStrip(RStrip(s, NL), NL)

\* text.strip().replace("\n", " ")
OneLine(text) == [i \in 1 .. Len(text) |-> IF text[i] = NL THEN W(" ") ELSE text[i]]

\* the body of the task created for an unmatched session
UnassignedBody(payload, session_ref) ==
    LET sn == SubSeq(payload.snippets, 1, Min2(6, Len(payload.snippets)))
        IsText(x) == x.text # <<>>
        shown == SelectSeq(sn, IsText)
        body_lines ==
            << <<L("Session:")>> \o session_ref, <<>> >>
            \o (IF payload.summary # <<>>
                THEN << <<L("Summary:")>>, StripNl(payload.summary), <<>> >> ELSE <<>>)
            \o (IF Len(payload.snippets) > 0
                THEN << <<L("Snippets:")>> >>
                     \o [i \in 1 .. Len(shown) |->
                            <<L(shown[i].role)>> \o Slice(OneLine(shown[i].text), 0, 200)]
                ELSE <<>>)
    IN StripNl(Join(body_lines, <<NL>>))

\* line 816: session_ref in board_content
C2_AlreadyLinked_M(board_content, session_ref) == FALSE
C5_AlreadyLinked_M(board_content, session_ref) ==
    Contains(board_content, <<F("sessions")>> \o session_ref)

AlreadyLinked(board_content, session_ref) == Contains(board_content, session_ref)

\* (None, 0.0): no heuristic match, or the heuristic matcher was not consulted
NoMatch == [uuid |-> NONE, score |-> [num |-> 0, den |-> 1]]

\* a missing confidence taken as certainty
C14_ConfOrZero_M(conf) == IF conf # -1 THEN conf ELSE 100

\* ai_conf if ai_conf is not None else 0.0
ConfOrZero(conf) == IF conf # -1 THEN conf ELSE 0

C15_ConsultsHeuristic_M(mode, ai) == mode = "heuristic" /\ ai.uuid = NONE

\* the heuristic matcher consulted whatever the AI matcher returned
C30_ConsultsHeuristic_M(mode, ai) == mode \in {"heuristic", "hybrid"}

\* if mode in ("heuristic", "hybrid") and match_uuid is None
ConsultsHeuristic(mode, ai) == mode \in {"heuristic", "hybrid"} /\ ai.uuid = NONE

\* lines 814-907 of sync_codex_sessions for one session: [ok, outcome, board, ai, heur];
\* ok = FALSE is an exception raised on the way; ai and heur are what the two matchers
\* returned
LinkSession(board_content, payload, sid, mode, resps, fresh, match_threshold, ai_confidence_threshold, ai_top_k) ==
    LET session_ref == SessionRef(sid)
        failed == [ok |-> FALSE, outcome |-> "error", board |-> board_content,
                   ai |-> NoAnswer, heur |-> NoMatch]
    IN IF AlreadyLinked(board_content, session_ref)
       THEN [ok |-> TRUE, outcome |-> "already", board |-> board_content,
             ai |-> NoAnswer, heur |-> NoMatch]
       ELSE
       With(parse_board(board_content), LAMBDA parsed :
       IF ~parsed.ok THEN failed
       ELSE
       With(IF mode \in {"ai", "hybrid"}
            THEN _ai_match_task_uuid(board_content, resps, ai_top_k) ELSE NoAnswer, LAMBDA ai :
       With(IF ConsultsHeuristic(mode, ai)
            THEN _best_task_match(board_content, payload) ELSE NoMatch, LAMBDA heur :
       LET match_uuid == IF ai.uuid # NONE THEN ai.uuid ELSE heur.uuid
           match_method == IF ai.uuid # NONE THEN "ai"
                           ELSE IF heur.uuid # NONE THEN "heuristic" ELSE NONE
           should_link ==
               /\ match_uuid # NONE
               /\ IF match_method = "heuristic" THEN FracGe(heur.score, match_threshold)
                  ELSE ConfOrZero(ai.conf) >= ai_confidence_threshold
           unassigned == SectionGet(parsed, "Unassigned")
           first_unassigned == IF HasSection(parsed, "Unassigned") /\ Len(unassigned.tasks) > 0
                               THEN unassigned.tasks[1].uuid ELSE NONE
           title == _compact_title(payload.summary, session_ref, 60)
           block == build_task_block(NONE, fresh, title, "Unassigned",
                                     <<<<W("session")>>, <<W("codex")>>>>,
                                     UnassignedBody(payload, session_ref), <<session_ref>>)
       IN IF should_link /\ HasTask(parsed, match_uuid)
          THEN With(FindTask(parsed, match_uuid), LAMBDA existing :
               With(replace_task_block(board_content, existing.uuid,
                                       add_session_ref_to_block(existing.raw, session_ref)),
                    LAMBDA linked :
                   IF linked.ok
                   THEN [ok |-> TRUE, outcome |-> "linked", board |-> linked.val,
                         ai |-> ai, heur |-> heur]
                   ELSE failed))
          ELSE With(insert_task_block(board_content, "Unassigned", first_unassigned, block),
                    LAMBDA created :
                   IF created.ok
                   THEN [ok |-> TRUE, outcome |-> "created", board |-> created.val,
                         ai |-> ai, heur |-> heur]
                   ELSE failed))))

-----------------------------------------------------------------------------
(* sessions/codex.py: sync_codex_sessions, one pass *)

TickS == 10         \* seconds between two readings of the clock
MaxTime == 20       \* the clock stops here
MaxPasses == 2      \* passes run
MaxFaults == 1      \* file operations that fail, over all passes
MaxFiles == 2       \* raw logs in the sessions directory

stable_after_s == 10
match_threshold == [num |-> 18, den |-> 100]
ai_confidence_threshold == 65
ai_top_k == 20
max_snippets == 12

Sids == {"s1", "s2"}
Files == {"f1", "f2", "f3"}
Modes == {"heuristic", "ai", "hybrid"}

\* _extract_session_id: the uuid in the file's name, lower-cased; two files carry s1
SidOf(f) == CASE f = "f1" -> "s1" [] f = "f2" -> "s2" [] f = "f3" -> "s1" [] OTHER -> NONE

\* what parse_rollout_messages extracts from a file.  The session s2 quotes the board's
\* end marker in a user message.
MessagesOf(f) ==
    IF SidOf(f) = "s2"
    THEN << [role |-> "user", text |-> <<W("close"), W("board")>> \o AUTO_END] >>
    ELSE << [role |-> "user", text |-> <<Tok("hx", "environment_context")>>],
            [role |-> "user", text |-> <<W("fix"), W("login"), W("bug")>>] >>

\* what _summarize_with_ai may return for a file's messages: <<>> is None (no answer, or
\* a call that failed)
AiSummaries(f) ==
    IF SidOf(f) = "s1" THEN {<<>>, <<W("refactor"), W("parser")>>} ELSE {<<>>}

Responses ==
    {[fail |-> TRUE, target |-> NONE, conf |-> -1],
     [fail |-> FALSE, target |-> NONE, conf |-> 90],
     [fail |-> FALSE, target |-> "a", conf |-> 90],
     [fail |-> FALSE, target |-> "a", conf |-> 50],
     [fail |-> FALSE, target |-> "a", conf |-> -1],
     [fail |-> FALSE, target |-> "zz", conf |-> 90]}

ZeroCounts ==
    [written |-> 0, skipped_old |-> 0, skipped_recent |-> 0, skipped_existing |-> 0,
     skipped_already_linked |-> 0, linked_updates |-> 0, created_unassigned |-> 0,
     errors |-> 0]

\* a task made for a session is counted as an error as well
C29_Inc_M(c, name) ==
    IF name = "created_unassigned"
    THEN [c EXCEPT !.created_unassigned = @ + 1, !.errors = @ + 1]
    ELSE [c EXCEPT ![name] = @ + 1]

\* <count> += 1
Inc(c, name) == [c EXCEPT ![name] = @ + 1]

\* the iteration last run: its file, whether the artifact existed and was read, whether
\* an exception was raised inside its try block, what the matchers returned to it, whether
\* its summarization call and a matching call of its own failed
NoLast == [f |-> NONE, existed |-> FALSE, read_ok |-> FALSE, raised |-> FALSE,
           ai |-> NoAnswer, heur |-> NoMatch, sum_failed |-> FALSE, match_failed |-> FALSE]

\* the locals of a pass, and what an observer of the pass remembers:
\*   buf0, file0, snaps0  the buffer, the board file and the number of snapshots at its start
\*   before               <<the board file>> when write_board_with_history was called
\*   writes               the board writes of the pass
\*   runs                 the passes started so far
\*   dirty                a raw log was written since the last pass started
\*   quiet                this pass follows another with no raw log written in between
\*   prev                 the counts of the pass before
\*   last                 the iteration last run
\*   faults               the file operations that failed so far
NoPass ==
    [todo |-> {}, board_content |-> <<>>, link_board |-> FALSE, board_changed |-> FALSE,
     now |-> 0, ignore_before |-> 0, c |-> ZeroCounts,
     buf0 |-> <<>>, file0 |-> <<>>, snaps0 |-> 0, before |-> <<>>, writes |-> 0,
     runs |-> 0, dirty |-> FALSE, quiet |-> FALSE, prev |-> ZeroCounts, last |-> NoLast,
     faults |-> 0]

\* int(st.st_mtime) < ignore_before
C4_IsOld_M(mtime, ignore_before) == FALSE

IsOld(mtime, ignore_before) == mtime < ignore_before

\* no raw log counts as modified too recently
C28_IsRecent_M(t, mtime, stable) == FALSE

\* stable_after_s > 0 and (now - st.st_mtime) < stable_after_s
IsRecent(t, mtime, stable) == stable > 0 /\ (t - mtime) < stable

\* payload is None after the artifact was (or was not) read: derive and write it
C6_MustDerive_M(exists, read_ok) == TRUE

MustDerive(exists, read_ok) == ~(exists /\ read_ok)

\* link_board and board_changed and board_content is not None
C7_NeedsWrite_M(p) == p.link_board /\ p.board_content # <<>>

NeedsWrite(p) == p.link_board /\ p.board_changed /\ p.board_content # <<>>

\* write_board_with_history: what the snapshot holds
C8_SnapshotContent_M(file) == build_default_board_markdown

SnapshotContent(file) == IF file # <<>> THEN file[1] ELSE build_default_board_markdown

\* except Exception: errors += 1; continue
C9_OnError_M(p, c) == [p EXCEPT !.c = Inc(Inc(c, "errors"), "errors")]

OnError(p, c) == [p EXCEPT !.c = Inc(c, "errors")]

\* a file operation may fail while the budget of failures lasts
CanFail(n) == n < MaxFaults

\* lines 714-758: with link_board the board is ensured, read and validated; the locals
\* are initialised
StartPassWith(link_board) ==
    /\ pc = "idle"
    /\ pass.runs < MaxPasses
    /\ LET file == IF link_board /\ boardFile = <<>> THEN <<build_default_board_markdown>>
                   ELSE boardFile
           valid == link_board /\ parse_board(file[1]).ok
       IN /\ boardFile' = file
          /\ pass' = [NoPass EXCEPT
                        !.todo = {f \in Files : rollouts[f] # <<>>},
                        !.board_content = IF valid THEN file ELSE <<>>,
                        !.link_board = valid,
                        !.now = now,
                        !.ignore_before = state.ignore_before_epoch,
                        !.buf0 = IF valid THEN file ELSE <<>>,
                        !.file0 = file,
                        !.snaps0 = Len(history),
                        !.runs = pass.runs + 1,
                        !.quiet = pass.runs > 0 /\ ~pass.dirty,
                        !.prev = pass.c,
                        !.faults = pass.faults]
    /\ pc' = "loop"
    /\ UNCHANGED <<history, artifacts, rollouts, now, state, stateFile, match_mode>>
    /\ UNCHANGED BoardVars

\* a pass with link_board = True, the default
StartPass == StartPassWith(TRUE)

\* the iteration of the loop for one raw log (lines 760-918)
\*   read_ok     the existing artifact is read and decoded
\*   io_ok       the raw log is parsed and the artifact written without an exception
\*   ai_summary  what _summarize_with_ai answers
\*   resps       what the matching calls answer
ProcessFile(f) ==
    /\ pc = "loop"
    /\ f \in pass.todo
    /\ LET mtime == rollouts[f][1].mtime
           sid == SidOf(f)
           done == [pass EXCEPT !.todo = @ \ {f},
                                !.last = [NoLast EXCEPT !.f = f]]
       IN IF IsOld(mtime, pass.ignore_before)
          THEN /\ pass' = [done EXCEPT !.c = Inc(@, "skipped_old")]
               /\ UNCHANGED artifacts
          ELSE IF IsRecent(pass.now, mtime, stable_after_s)
          THEN /\ pass' = [done EXCEPT !.c = Inc(@, "skipped_recent")]
               /\ UNCHANGED artifacts
          ELSE IF sid = NONE
          THEN /\ pass' = done
               /\ UNCHANGED artifacts
          ELSE LET exists == artifacts[sid] # <<>>
                   c1 == IF exists THEN Inc(pass.c, "skipped_existing") ELSE pass.c
                   linking == pass.link_board /\ pass.board_content # <<>>
               IN \E read_ok \in (IF ~exists THEN {FALSE}
                                  ELSE IF CanFail(pass.faults) THEN BOOLEAN ELSE {TRUE}) :
                  LET derive == MustDerive(exists, read_ok)
                      f1 == IF exists /\ ~read_ok THEN pass.faults + 1 ELSE pass.faults
                  IN \E io_ok \in (IF derive /\ CanFail(f1) THEN BOOLEAN ELSE {TRUE}),
                        ai_summary \in (IF derive THEN AiSummaries(f) ELSE {<<>>}) :
                     LET messages == MessagesOf(f)
                         summary == IF ai_summary # <<>> THEN ai_summary
                                    ELSE _fallback_summary(messages)
                         derived == [id |-> sid, summary |-> summary,
                                     snippets |-> _select_snippets(messages, max_snippets)]
                         payload == IF derive THEN derived ELSE artifacts[sid][1]
                         wrote == derive /\ io_ok
                         c2 == IF wrote THEN Inc(c1, "written") ELSE c1
                         seen == [done EXCEPT !.last.existed = exists,
                                              !.last.read_ok = read_ok,
                                              !.last.sum_failed = derive /\ ai_summary = <<>>,
                                              !.faults = IF io_ok THEN f1 ELSE f1 + 1]
                         asks == /\ ~(derive /\ ~wrote)
                                 /\ linking /\ match_mode \in {"ai", "hybrid"}
                                 /\ ~AlreadyLinked(pass.board_content[1], SessionRef(sid))
                     IN \E resps \in (IF asks
                                      THEN [1 .. AiCalls(pass.board_content[1], ai_top_k) -> Responses]
                                      ELSE {<<>>}) :
                        LET met == [seen EXCEPT !.last.match_failed =
                                       \E i \in DOMAIN resps : resps[i].fail]
                        IN
                        /\ artifacts' = IF wrote THEN [artifacts EXCEPT ![sid] = <<payload>>]
                                        ELSE artifacts
                        /\ pass' =
                             IF derive /\ ~wrote
                             THEN OnError([met EXCEPT !.last.raised = TRUE], c1)
                             ELSE IF ~linking THEN [met EXCEPT !.c = c2]
                             ELSE
                             With(LinkSession(pass.board_content[1], payload, sid, match_mode,
                                              resps, FreshId(pass.board_content[1]),
                                              match_threshold, ai_confidence_threshold,
                                              ai_top_k),
                                  LAMBDA r :
                                 IF ~r.ok
                                 THEN OnError([met EXCEPT !.last.raised = TRUE], c2)
                                 ELSE IF r.outcome = "already"
                                 THEN [met EXCEPT !.c = Inc(c2, "skipped_already_linked")]
                                 ELSE IF r.outcome = "linked"
                                 THEN [met EXCEPT !.c = Inc(c2, "linked_updates"),
                                                   !.board_content = <<r.board>>,
                                                   !.board_changed = TRUE,
                                                   !.last.ai = r.ai, !.last.heur = r.heur]
                                 ELSE [met EXCEPT !.c = Inc(c2, "created_unassigned"),
                                                   !.board_content = <<r.board>>,
                                                   !.board_changed = TRUE,
                                                   !.last.ai = r.ai, !.last.heur = r.heur])
    /\ UNCHANGED <<boardFile, history, rollouts, now, state, stateFile, match_mode, pc>>
    /\ UNCHANGED BoardVars

\* write_board_with_history, lines 82-90: the current board is read and the snapshot
\* written.  A failed write raises; the pass counts it and goes on to save its state.
WriteSnapshot ==
    /\ pc = "loop"
    /\ pass.todo = {}
    /\ NeedsWrite(pass)
    /\ \E ok \in (IF CanFail(pass.faults) THEN BOOLEAN ELSE {TRUE}) :
          IF ok
          THEN /\ history' = Append(history, SnapshotContent(boardFile))
               /\ pc' = "write_board"
               /\ pass' = [pass EXCEPT !.before = <<boardFile>>]
          ELSE /\ history' = history
               /\ pc' = "save"
               /\ pass' = OnError([pass EXCEPT !.before = <<boardFile>>, !.faults = @ + 1],
                                  pass.c)
    /\ UNCHANGED <<boardFile, artifacts, rollouts, now, state, stateFile, match_mode>>
    /\ UNCHANGED BoardVars

\* write_board_with_history, lines 92-93: the board is written
WriteBoard ==
    /\ pc = "write_board"
    /\ \E ok \in (IF CanFail(pass.faults) THEN BOOLEAN ELSE {TRUE}) :
          IF ok
          THEN /\ boardFile' = pass.board_content
               /\ pass' = [pass EXCEPT !.writes = @ + 1]
          ELSE /\ boardFile' = boardFile
               /\ pass' = OnError([pass EXCEPT !.faults = @ + 1], pass.c)
    /\ pc' = "save"
    /\ UNCHANGED <<history, artifacts, rollouts, now, state, stateFile, match_mode>>
    /\ UNCHANGED BoardVars

\* lines 926-952: the counts go into the state, the state is saved, the counts returned
SaveState ==
    /\ \/ pc = "save"
       \/ pc = "loop" /\ pass.todo = {} /\ ~NeedsWrite(pass)
    /\ state' = [state EXCEPT !.last_result = pass.c]
    /\ stateFile' = <<state'>>
    /\ pc' = "idle"
    /\ pass' = [pass EXCEPT !.last = NoLast]
    /\ UNCHANGED <<boardFile, history, artifacts, rollouts, now, match_mode>>
    /\ UNCHANGED BoardVars

\* the clock advances between passes
Tick ==
    /\ pc = "idle"
    /\ pass.runs < MaxPasses
    /\ now + TickS <= MaxTime
    /\ now' = now + TickS
    /\ UNCHANGED <<boardFile, history, artifacts, rollouts, state, stateFile, match_mode,
                   pc, pass>>
    /\ UNCHANGED BoardVars

\* Codex writes (creates or appends to) a raw log, while a pass can still see it stable
WriteRollout(f) ==
    /\ pc = "idle"
    /\ pass.runs < MaxPasses
    /\ now < MaxTime
    /\ Cardinality({g \in Files : rollouts[g] # <<>>} \cup {f}) <= MaxFiles
    /\ rollouts[f] # <<[mtime |-> now]>>
    /\ rollouts' = [rollouts EXCEPT ![f] = <<[mtime |-> now]>>]
    /\ pass' = [pass EXCEPT !.dirty = TRUE]
    /\ UNCHANGED <<boardFile, history, artifacts, state, stateFile, match_mode, now, pc>>
    /\ UNCHANGED BoardVars

\* the board file is removed after the pass read it and before the pass writes it back:
\* the one moment at which write_board_with_history finds no file
DeleteBoard ==
    /\ pc = "loop"
    /\ pass.todo = {}
    /\ NeedsWrite(pass)
    /\ boardFile # <<>>
    /\ CanFail(pass.faults)
    /\ boardFile' = <<>>
    /\ pass' = [pass EXCEPT !.faults = @ + 1]
    /\ UNCHANGED <<history, artifacts, rollouts, now, state, stateFile, match_mode, pc>>
    /\ UNCHANGED BoardVars

-----------------------------------------------------------------------------
(* sessions/state.py: the SessionsState store.  A state is [ignore_before_epoch,         *)
(* last_result]; the file is <<>> when missing, <<document>> otherwise.  t is what       *)
(* time.time() reads.                                                                    *)

\* SessionsState(): the watermark is the clock
FreshState(t) == [ignore_before_epoch |-> t, last_result |-> ZeroCounts]

\* <<>> is None; int(data.get("ignore_before_epoch") or int(time.time())): a missing, null
\* or zero watermark reads as the clock
load_sessions_state(file, t) ==
    IF file = <<>> THEN <<>>
    ELSE <<[ignore_before_epoch |-> IF file[1].ignore_before_epoch # 0
                                     THEN file[1].ignore_before_epoch ELSE t,
            last_result |-> file[1].last_result]>>

\* the document written over the file (temporary file, then rename)
save_sessions_state(st) == <<st>>

\* [state, file]: what is returned and what the file holds afterwards
ensure_sessions_state(file, t, force) ==
    With(load_sessions_state(file, t), LAMBDA existing :
        IF existing # <<>> /\ ~force THEN [state |-> existing[1], file |-> file]
        ELSE [state |-> FreshState(t), file |-> save_sessions_state(FreshState(t))])

Watermarks == {0, 1, 5, 10, 15}

\* what the last pass counted, in a sync command
LastResults == {ZeroCounts, Inc(ZeroCounts, "written"), Inc(ZeroCounts, "errors")}

StateVars == <<content, content0, lastOp, toolkit, tmpFiles, boardFile, history, artifacts, rollouts,
               match_mode, pc, pass>>

\* a caller loads the state and holds it
LoadState ==
    /\ pc = "idle"
    /\ stateFile # <<>>
    /\ state' = load_sessions_state(stateFile, now)[1]
    /\ call' = [fn |-> "load_sessions_state"]
    /\ UNCHANGED <<stateFile, now>>

\* a caller saves the state it holds
SaveHeldState ==
    /\ pc = "idle"
    /\ stateFile' = save_sessions_state(state)
    /\ call' = [fn |-> "save_sessions_state"]
    /\ UNCHANGED <<state, now>>

\* ensure_sessions_state(vault_dir, force=False)
EnsureState ==
    /\ pc = "idle"
    /\ With(ensure_sessions_state(stateFile, now, FALSE), LAMBDA r :
           /\ state' = r.state
           /\ stateFile' = r.file)
    /\ call' = [fn |-> "ensure_sessions_state"]
    /\ UNCHANGED now

\* the sync command (cli.py 227, 264; agent_heartbeat.py 80): the state is loaded or
\* ensured, the pass runs with it, puts its counts into it and saves it (codex.py 926-950)
SyncCommand ==
    /\ pc = "idle"
    /\ \E c \in LastResults :
          With(load_sessions_state(stateFile, now), LAMBDA loaded :
          With(IF loaded # <<>> THEN loaded[1]
               ELSE ensure_sessions_state(stateFile, now, FALSE).state, LAMBDA st :
              /\ state' = [st EXCEPT !.last_result = c]
              /\ stateFile' = save_sessions_state(state')))
    /\ call' = [fn |-> "sync_codex_sessions"]
    /\ UNCHANGED now

-----------------------------------------------------------------------------
(* sessions/codex.py _write_json_atomic and sessions/state.py save_sessions_state, step  *)
(* by step: the text goes into <path>.tmp, then <path>.tmp is renamed over <path>.  The  *)
(* process can die between any two steps.  target is "state" for the sessions state and  *)
(* the session id for an artifact.                                                       *)

\* a text cut short: what a file holds while write_text is writing it
Partial == [partial |-> TRUE]

\* the file at the path of a target
TargetFile(target) == IF target = "state" THEN stateFile ELSE artifacts[target]

\* the file at the path of a target becomes file; the other files stay
SetTarget(target, file) ==
    /\ stateFile' = IF target = "state" THEN file ELSE stateFile
    /\ artifacts' = IF target = "state" THEN artifacts
                    ELSE [artifacts EXCEPT ![target] = file]

\* a write is between two of its steps
InWrite == call.fn = "_write_json_atomic" /\ call.at \in {"open", "written"}

WriteVars == <<content, content0, lastOp, toolkit, boardFile, history, rollouts, now, state,
               match_mode, pc, pass>>

\* path.write_text(...): the text is written straight over the target
C18_OpenTmp_M(target, doc) ==
    /\ ~InWrite
    /\ call' = [fn |-> "_write_json_atomic", target |-> target, doc |-> doc,
                prev |-> TargetFile(target), at |-> "open"]
    /\ SetTarget(target, <<Partial>>)
    /\ UNCHANGED tmpFiles

\* path.parent.mkdir(...); tmp.write_text(...) opens <path>.tmp and empties it
OpenTmp(target, doc) ==
    /\ ~InWrite
    /\ call' = [fn |-> "_write_json_atomic", target |-> target, doc |-> doc,
                prev |-> TargetFile(target), at |-> "open"]
    /\ tmpFiles' = [tmpFiles EXCEPT ![target] = <<Partial>>]
    /\ UNCHANGED <<stateFile, artifacts>>

\* tmp.write_text(...) has written the whole text and closed <path>.tmp
WriteTmp ==
    /\ call.fn = "_write_json_atomic"
    /\ call.at = "open"
    /\ call' = [call EXCEPT !.at = "written"]
    /\ tmpFiles' = [tmpFiles EXCEPT ![call.target] = <<call.doc>>]
    /\ UNCHANGED <<stateFile, artifacts>>

\* tmp.replace(path): the rename
ReplaceTmp ==
    /\ call.fn = "_write_json_atomic"
    /\ call.at = "written"
    /\ call' = [call EXCEPT !.at = "done"]
    /\ SetTarget(call.target, tmpFiles[call.target])
    /\ tmpFiles' = [tmpFiles EXCEPT ![call.target] = <<>>]

\* the process dies between two steps; the files stay as they are
Interrupt ==
    /\ call.fn = "_write_json_atomic"
    /\ call.at \in {"open", "written"}
    /\ call' = [call EXCEPT !.at = "killed"]
    /\ UNCHANGED <<tmpFiles, stateFile, artifacts>>

-----------------------------------------------------------------------------
(* tools/board_toolkit.py: the BoardToolkit tools.  A call ends with a result that says   *)
(* ok, with a result that says "Error: ...", or with an exception that leaves the tool.   *)
(* The tags and body arguments of board_update_task are None.                             *)

MaxCalls == 2       \* BoardToolkit calls made

ToolUuids == {"a", "n1", "zz"}
ToolStatuses == {NONE, "Todo", "Done"}
ToolBefore == {NONE, "a"}
\* a title argument: <<>> is None, <<t>> the title t
ToolTitles == {<<>>, << <<W("new")>> >>}

\* _read_board: ensure_board_file writes the scaffold when there is no file
_read_board == IF boardFile = <<>> THEN build_default_board_markdown ELSE boardFile[1]

\* every callout line gets the new title; the block as it is when it has none
_rewrite_title(block, title) ==
    LET t == IF title # <<>> THEN title ELSE <<W("(Untitled)")>>
    IN With(Split(block, NL), LAMBDA lines :
           IF \E i \in 1 .. Len(lines) : IsCalloutLine(lines[i])
           THEN Join([i \in 1 .. Len(lines) |->
                         IF IsCalloutLine(lines[i]) THEN <<Q, lines[i][2]>> \o t
                         ELSE lines[i]], <<NL>>)
           ELSE block)

\* "archived": the block with an archival timestamp marker appended
mark_task_archived(block) == block \o <<Q, F("archived"), TS, NL>>

\* the end of a call that wrote nothing but the file _read_board ensured
ToolReturns(op, uuid, result) ==
    /\ toolkit.n < MaxCalls
    /\ toolkit' = [toolkit EXCEPT !.op = op, !.uuid = uuid, !.result = result, !.n = @ + 1]
    /\ boardFile' = <<_read_board>>
    /\ history' = history

\* the end of a call that went through _write_board (write_board_with_history): the board
\* read is snapshotted, next_content written; archived is the block appended to the archive
ToolWrites(op, uuid, next_content, archived) ==
    /\ toolkit.n < MaxCalls
    /\ toolkit' = [toolkit EXCEPT !.op = op, !.uuid = uuid, !.result = "ok", !.n = @ + 1,
                                   !.archive = IF archived = <<>> THEN @ ELSE @ \o archived]
    /\ boardFile' = <<next_content>>
    /\ history' = Append(history, SnapshotContent(<<_read_board>>))

board_get_task(uuid) ==
    With(parse_board(_read_board), LAMBDA parsed :
        IF ~parsed.ok THEN ToolReturns("get", uuid, "raised")
        ELSE IF HasTask(parsed, LowerStr(uuid)) THEN ToolReturns("get", uuid, "ok")
        ELSE ToolReturns("get", uuid, "error"))

board_create_task(title, status, before_uuid) ==
    LET st == BlockStatus(status)
        block == build_task_block(NONE, FreshId(_read_board), title, st, <<>>, <<>>, <<>>)
    IN With(insert_task_block(_read_board, st, before_uuid, block), LAMBDA r :
           IF ~r.ok THEN ToolReturns("create", NONE, "raised")
           ELSE ToolWrites("create", NONE, r.val, <<>>))

\* lines 251-300; title, status, before_uuid = NONE are the arguments left at None
board_update_task(uuid, title, status, before_uuid) ==
    LET text == _read_board
        tuid == LowerStr(uuid)
    IN With(parse_board(text), LAMBDA parsed :
       IF ~parsed.ok THEN ToolReturns("update", uuid, "raised")
       ELSE IF ~HasTask(parsed, tuid) THEN ToolReturns("update", uuid, "error")
       ELSE
       With(FindTask(parsed, tuid), LAMBDA existing :
       LET from_status ==
               parsed.sections[CHOOSE i \in 1 .. Len(parsed.sections) :
                   /\ \E j \in 1 .. Len(parsed.sections[i].tasks) :
                         parsed.sections[i].tasks[j].uuid = tuid
                   /\ \A k \in 1 .. i - 1 : \A j \in 1 .. Len(parsed.sections[k].tasks) :
                         parsed.sections[k].tasks[j].uuid # tuid].status
           target_status == IF status # NONE /\ normalize_status(status) # NONE
                            THEN normalize_status(status) ELSE from_status
           titled == IF title # <<>> THEN _rewrite_title(existing.raw, title[1])
                     ELSE existing.raw
           block == IF target_status # from_status \/ status # NONE
                    THEN rewrite_status_field(titled, target_status) ELSE titled
           needs_move == target_status # from_status \/ before_uuid # NONE
           effective_before == IF before_uuid # NONE /\ LowerStr(before_uuid) = tuid THEN NONE
                               ELSE before_uuid
       IN With(IF needs_move
               THEN insert_task_block(remove_task_block(text, tuid).val, target_status,
                                      effective_before, block)
               ELSE replace_task_block(text, tuid, block), LAMBDA r :
              IF ~r.ok THEN ToolReturns("update", uuid, "raised")
              ELSE ToolWrites("update", uuid, r.val, <<>>))))

\* lines 303-308: nothing between move_task_block and the caller of the tool
board_move_task(uuid, to_status, before_uuid) ==
    With(move_task_block(_read_board, uuid, BlockStatus(to_status), before_uuid), LAMBDA r :
        IF ~r.ok THEN ToolReturns("move", uuid, "raised")
        ELSE ToolWrites("move", uuid, r.val, <<>>))

board_append_session(uuid, session_ref) ==
    LET text == _read_board
        tuid == LowerStr(uuid)
    IN With(parse_board(text), LAMBDA parsed :
       IF ~parsed.ok THEN ToolReturns("append_session", uuid, "raised")
       ELSE IF ~HasTask(parsed, tuid) THEN ToolReturns("append_session", uuid, "error")
       ELSE With(replace_task_block(text, tuid,
                     add_session_ref_to_block(FindTask(parsed, tuid).raw, session_ref)),
                 LAMBDA r :
                IF ~r.ok THEN ToolReturns("append_session", uuid, "raised")
                ELSE ToolWrites("append_session", uuid, r.val, <<>>)))

\* lines 338-358: nothing between remove_task_block and the caller of the tool
board_archive_task(uuid) ==
    With(remove_task_block(_read_board, uuid), LAMBDA r :
        IF ~r.ok THEN ToolReturns("archive", uuid, "raised")
        ELSE ToolWrites("archive", uuid, r.val, mark_task_archived(r.removed)))

ToolVars == <<content, content0, lastOp, call, tmpFiles, artifacts, rollouts, now, state, stateFile,
              match_mode, pc, pass>>

-----------------------------------------------------------------------------
(* The specifications *)

\* no BoardToolkit call made yet, no archive file
NoTool == [archive |-> <<>>, op |-> "none", uuid |-> NONE, result |-> "none", n |-> 0]

\* no call of a pure function
NoCall == [fn |-> "none"]

\* the JSON files written through a temporary file: the sessions state and the artifacts
Targets == {"state", "s1", "s2"}
NoTmp == [t \in Targets |-> <<>>]

BoardIdle ==
    /\ content = build_default_board_markdown
    /\ content0 = build_default_board_markdown
    /\ lastOp = [op |-> "none", ok |-> TRUE, n |-> 0]
    /\ toolkit = NoTool
    /\ call = NoCall
    /\ tmpFiles = NoTmp

SyncIdle ==
    /\ boardFile = <<>>
    /\ history = <<>>
    /\ artifacts = [sid \in Sids |-> <<>>]
    /\ rollouts = [f \in Files |-> <<>>]
    /\ now = TickS
    /\ state = [ignore_before_epoch |-> TickS, last_result |-> ZeroCounts]
    /\ stateFile = <<state>>
    /\ match_mode = "ai"
    /\ pc = "idle"
    /\ pass = NoPass

\* the vault when the sessions state has just been initialised (watermark = now): the
\* board is missing, or holds a task, or lacks its end marker, or has its markers out of
\* order; a raw log older than the watermark lies in the sessions directory.  The
\* matching mode is varied on the board that has a task to match.
Init ==
    /\ BoardIdle
    /\ boardFile \in {<<>>, <<BoardWithTask>>, <<BoardNoEnd>>, <<BoardSwapped>>}
    /\ history = <<>>
    /\ artifacts = [sid \in Sids |-> <<>>]
    /\ rollouts = [f \in Files |-> IF f = "f1" THEN <<[mtime |-> 0]>> ELSE <<>>]
    /\ now = TickS
    /\ state = [ignore_before_epoch |-> TickS, last_result |-> ZeroCounts]
    /\ stateFile = <<state>>
    /\ match_mode \in (IF boardFile = <<BoardWithTask>> THEN Modes ELSE {"ai"})
    /\ pc = "idle"
    /\ pass = NoPass

Next ==
    \/ StartPass
    \/ \E f \in Files : ProcessFile(f)
    \/ WriteSnapshot
    \/ WriteBoard
    \/ SaveState
    \/ Tick
    \/ \E f \in Files : WriteRollout(f)
    \/ DeleteBoard

Spec == Init /\ [][Next]_vars

\* cli.py sessions_watch, run with --no-link-board: a pass, then
\* time.sleep(max(1, interval_s)), for ever; a pass starts after the clock has advanced
\* since the pass before
WatchPass ==
    /\ pass.runs = 0 \/ now > pass.now
    /\ StartPassWith(FALSE)

\* the steps of the loop of sessions_watch
WatchStep ==
    \/ WatchPass
    \/ \E f \in Files : ProcessFile(f)
    \/ SaveState
    \/ Tick

NextWatch ==
    \/ WatchStep
    \/ \E f \in Files : WriteRollout(f)

\* the loop is one thread that goes on: its next step (the start of a pass, an iteration,
\* the save of the state, the end of the sleep) is taken; Codex writing a raw log is not
\* owed
WatchFairness == WF_vars(WatchStep)

SpecWatch == Init /\ [][NextWatch]_vars /\ WatchFairness

InitBoard ==
    /\ SyncIdle
    /\ content \in InitBoards
    /\ content0 = content
    /\ lastOp = [op |-> "none", ok |-> TRUE, n |-> 0]
    /\ toolkit = NoTool
    /\ call = NoCall
    /\ tmpFiles = NoTmp

NextBoard ==
    \/ \E id \in OpTaskUuids, st \in OpStatuses, bs \in OpStatuses, b \in OpBefore,
          t \in OpTitles :
          InsertOp(id, st, bs, b, t) /\ UNCHANGED <<content0, toolkit, call, tmpFiles>> /\ UNCHANGED SyncVars
    \/ \E u \in OpUuids : ReplaceOp(u) /\ UNCHANGED <<content0, toolkit, call, tmpFiles>> /\ UNCHANGED SyncVars
    \/ \E u \in OpUuids : RemoveOp(u) /\ UNCHANGED <<content0, toolkit, call, tmpFiles>> /\ UNCHANGED SyncVars
    \/ \E u \in OpUuids, st \in OpStatuses, b \in OpBefore :
          MoveOp(u, st, b) /\ UNCHANGED <<content0, toolkit, call, tmpFiles>> /\ UNCHANGED SyncVars

SpecBoard == InitBoard /\ [][NextBoard]_vars

\* the default scaffold, and any sequence of insert_task_block and replace_task_block on it
InitScaffold ==
    /\ InitBoard
    /\ content = build_default_board_markdown

NextScaffold ==
    \/ \E id \in OpTaskUuids, st \in OpStatuses, bs \in OpStatuses, b \in OpBefore, t \in OpTitles :
          InsertOp(id, st, bs, b, t) /\ UNCHANGED <<content0, toolkit, call, tmpFiles>>
                                     /\ UNCHANGED SyncVars
    \/ \E u \in OpUuids : ReplaceOp(u) /\ UNCHANGED <<content0, toolkit, call, tmpFiles>>
                                       /\ UNCHANGED SyncVars

SpecScaffold == InitScaffold /\ [][NextScaffold]_vars

\* the vault a tool-call consumer works in: no board file yet, or a board with a task
InitTools ==
    /\ BoardIdle
    /\ boardFile \in {<<>>, <<BoardWithTask>>}
    /\ history = <<>>
    /\ artifacts = [sid \in Sids |-> <<>>]
    /\ rollouts = [f \in Files |-> <<>>]
    /\ now = TickS
    /\ state = [ignore_before_epoch |-> TickS, last_result |-> ZeroCounts]
    /\ stateFile = <<state>>
    /\ match_mode = "ai"
    /\ pc = "idle"
    /\ pass = NoPass

NextTools ==
    \/ \E u \in ToolUuids : board_get_task(u) /\ UNCHANGED ToolVars
    \/ \E t \in ToolTitles \ {<<>>}, st \in ToolStatuses, b \in ToolBefore :
          board_create_task(t[1], st, b) /\ UNCHANGED ToolVars
    \/ \E u \in ToolUuids, t \in ToolTitles, st \in ToolStatuses, b \in ToolBefore :
          board_update_task(u, t, st, b) /\ UNCHANGED ToolVars
    \/ \E u \in ToolUuids, st \in ToolStatuses \ {NONE}, b \in ToolBefore :
          board_move_task(u, st, b) /\ UNCHANGED ToolVars
    \/ \E u \in ToolUuids : board_append_session(u, <<REF("s1")>>) /\ UNCHANGED ToolVars
    \/ \E u \in ToolUuids : board_archive_task(u) /\ UNCHANGED ToolVars

SpecTools == InitTools /\ [][NextTools]_vars

\* the candidate lists a matching call is made with: none, two, and six (more than the
\* chunk size of five, so a tournament of two chunks and a final call)
Cand(id) == [uuid |-> id, title |-> <<W("fix")>>, status |-> "Todo", tags |-> <<>>]
CandidateLists ==
    {<<>>, <<Cand("a"), Cand("b")>>,
     <<Cand("a"), Cand("b"), Cand("c1"), Cand("c2"), Cand("c3"), Cand("c4")>>}

\* the answers of the external model in a matching call: a failure, null, candidates of
\* the first chunk, the candidate of the second chunk (without a confidence, and with the
\* highest), an identifier in capitals, and an identifier that is no candidate
MatchResponses ==
    {[fail |-> TRUE, target |-> NONE, conf |-> -1],
     [fail |-> FALSE, target |-> NONE, conf |-> 90],
     [fail |-> FALSE, target |-> "a", conf |-> 90],
     [fail |-> FALSE, target |-> "B", conf |-> 50],
     [fail |-> FALSE, target |-> "c4", conf |-> -1],
     [fail |-> FALSE, target |-> "c4", conf |-> 95],
     [fail |-> FALSE, target |-> "zz", conf |-> 90]}

\* the calls of _ai_match_task_uuid for a candidate list
CallsFor(candidates, chunk_size) ==
    LET k == Max2(5, IF chunk_size = 0 THEN 20 ELSE chunk_size)
    IN IF Len(candidates) <= k THEN 1 ELSE Len(_chunked(candidates, k)) + 1

MaxTokens == 2      \* tokens in a token list

\* the token lists of _jaccard: up to MaxTokens tokens, repeats included
Tokens == {"fix", "login", "bug"}
TokenLists == UNION {[1 .. n -> Tokens] : n \in 0 .. MaxTokens}

JaccardInputs ==
    {[fn |-> "_jaccard", a_tokens |-> a, b_tokens |-> b, ret |-> <<>>] :
        a \in TokenLists, b \in TokenLists}

\* the boards insert_task_block is called on: the scaffold, a board with one task and a
\* board with two tasks in Todo, and a board whose last heading abuts the end marker
TaskB == build_task_block("b", "b", <<W("fix"), W("logout")>>, "Todo", <<>>, <<>>, <<>>)
BoardTwoTasks == insert_task_block(BoardWithTask, "Todo", NONE, TaskB).val
InsertBoards == {build_default_board_markdown, BoardWithTask, BoardTwoTasks, BoardAbutting}
InsertStatuses == {"Todo", "Done", "Nowhere"}
InsertBefore == {NONE, "a", "B", "zz"}

InsertInputs ==
    {[fn |-> "insert_task_block", content |-> c, to_status |-> st, before_uuid |-> b,
      id |-> FreshId(c), ret |-> <<>>] :
        c \in InsertBoards, st \in InsertStatuses, b \in InsertBefore}

MaxItems == 4       \* items in a list handed to _chunked
MaxInserts == 3     \* tasks inserted into the scaffold before the candidates are listed

\* the lists and sizes of _chunked: repeats included; sizes below 1, and above the length
ChunkSizes == {-1, 0, 1, 2, 3, 5}
ChunkInputs ==
    {[fn |-> "_chunked", items |-> xs, size |-> k, ret |-> <<>>] :
        xs \in UNION {[1 .. n -> {"a", "b"}] : n \in 0 .. MaxItems}, k \in ChunkSizes}

\* the board after tasks were inserted into the scaffold, one per status of order, each
\* built for the status of the section it is inserted into
RECURSIVE BoardAfter(_)
BoardAfter(order) ==
    IF order = <<>> THEN build_default_board_markdown
    ELSE With(BoardAfter(SubSeq(order, 1, Len(order) - 1)), LAMBDA board :
             insert_task_block(board, order[Len(order)], NONE,
                               build_task_block(NONE, FreshId(board), <<W("t")>>,
                                                order[Len(order)], <<>>, <<>>, <<>>)).val)

CandidateInputs ==
    {[fn |-> "_list_task_candidates", order |-> o, content |-> BoardAfter(o), ret |-> <<>>] :
        o \in UNION {[1 .. n -> StatusSet] : n \in 0 .. MaxInserts}}

MaxMessages == 4    \* messages of a session handed to _select_snippets

\* the messages of a session: three that differ, and one of the harness
SnippetMessages ==
    {[role |-> "user", text |-> <<W("m1")>>],
     [role |-> "assistant", text |-> <<W("m2")>>],
     [role |-> "user", text |-> <<W("m3")>>],
     [role |-> "user", text |-> <<Tok("hx", "environment_context")>>]}
SnippetLimits == {1, 2, 3}

SnippetInputs ==
    {[fn |-> "_select_snippets", messages |-> ms, max_snippets |-> n, ret |-> <<>>] :
        ms \in UNION {[1 .. k -> SnippetMessages] : k \in 0 .. MaxMessages},
        n \in SnippetLimits}

MaxLines == 3       \* lines of a raw log handed to parse_rollout_messages

\* the lines of a raw log: an empty line, a line json.loads rejects, a JSON value that is
\* no object, an object of another event type, a session_meta event, two messages (one
\* with a secret and no timestamp), a message of another role and a message without text
LogLines ==
    {LogLine("blank", NONE, "", FALSE, NONE, "", "", <<>>),
     LogLine("bad", NONE, "", FALSE, NONE, "", "", <<>>),
     LogLine("value", NONE, "", FALSE, NONE, "", "", <<>>),
     LogLine("object", "t9", "event_msg", TRUE, NONE, "", "", <<>>),
     LogLine("object", "t0", "session_meta", TRUE, "tm", "", "", <<>>),
     LogLine("object", "t1", "response_item", TRUE, NONE, "message", "user", <<W("hi")>>),
     LogLine("object", NONE, "response_item", TRUE, NONE, "message", "assistant",
             <<W("key"), Tok("secret", "sk-1")>>),
     LogLine("object", "t2", "response_item", TRUE, NONE, "message", "system", <<W("sys")>>),
     LogLine("object", "t3", "response_item", TRUE, NONE, "message", "user", <<>>)}

ParseInputs ==
    {[fn |-> "parse_rollout_messages", lines |-> ls, ret |-> <<>>] :
        ls \in UNION {[1 .. n -> LogLines] : n \in 0 .. MaxLines}}

MatchInputs ==
    UNION {{[fn |-> "_ai_match_task_uuid", candidates |-> cs, resps |-> rs, ret |-> <<>>] :
               rs \in [1 .. CallsFor(cs, 5) -> MatchResponses]} : cs \in CandidateLists}

\* a pure function waits to be applied to inputs drawn from the bounded sets
InitCalls ==
    /\ SyncIdle
    /\ content = build_default_board_markdown
    /\ content0 = content
    /\ lastOp = [op |-> "none", ok |-> TRUE, n |-> 0]
    /\ toolkit = NoTool
    /\ call \in MatchInputs \cup JaccardInputs \cup InsertInputs \cup ChunkInputs
                \cup CandidateInputs \cup SnippetInputs \cup ParseInputs
    /\ tmpFiles = NoTmp

CallVars == <<content, content0, lastOp, toolkit, tmpFiles>>

\* the call returns: ret holds the value
CallAiMatchTaskUuid ==
    /\ call.fn = "_ai_match_task_uuid"
    /\ call.ret = <<>>
    /\ call' = [call EXCEPT !.ret = <<MatchAmong(call.candidates, call.resps, 5)>>]

CallJaccard ==
    /\ call.fn = "_jaccard"
    /\ call.ret = <<>>
    /\ call' = [call EXCEPT
                  !.ret = <<_jaccard(TokenSet(call.a_tokens), TokenSet(call.b_tokens))>>]

\* insert_task_block with a block built under a drawn identifier
CallInsertTaskBlock ==
    /\ call.fn = "insert_task_block"
    /\ call.ret = <<>>
    /\ call' = [call EXCEPT
                  !.ret = <<insert_task_block(
                              call.content, call.to_status, call.before_uuid,
                              build_task_block(NONE, call.id, <<W("new")>>, call.to_status,
                                               <<>>, <<>>, <<>>))>>]

CallChunked ==
    /\ call.fn = "_chunked"
    /\ call.ret = <<>>
    /\ call' = [call EXCEPT !.ret = <<_chunked(call.items, call.size)>>]

CallListTaskCandidates ==
    /\ call.fn = "_list_task_candidates"
    /\ call.ret = <<>>
    /\ call' = [call EXCEPT !.ret = <<_list_task_candidates(call.content)>>]

CallSelectSnippets ==
    /\ call.fn = "_select_snippets"
    /\ call.ret = <<>>
    /\ call' = [call EXCEPT !.ret = <<_select_snippets(call.messages, call.max_snippets)>>]

CallParseRolloutMessages ==
    /\ call.fn = "parse_rollout_messages"
    /\ call.ret = <<>>
    /\ call' = [call EXCEPT !.ret = <<parse_rollout_messages(call.lines)>>]

NextCalls ==
    \/ CallAiMatchTaskUuid /\ UNCHANGED CallVars /\ UNCHANGED SyncVars
    \/ CallParseRolloutMessages /\ UNCHANGED CallVars /\ UNCHANGED SyncVars
    \/ CallSelectSnippets /\ UNCHANGED CallVars /\ UNCHANGED SyncVars
    \/ CallChunked /\ UNCHANGED CallVars /\ UNCHANGED SyncVars
    \/ CallListTaskCandidates /\ UNCHANGED CallVars /\ UNCHANGED SyncVars
    \/ CallJaccard /\ UNCHANGED CallVars /\ UNCHANGED SyncVars
    \/ CallInsertTaskBlock /\ UNCHANGED CallVars /\ UNCHANGED SyncVars

SpecCalls == InitCalls /\ [][NextCalls]_vars

\* the vault after its sessions state was initialised with a watermark (the clock of an
\* earlier moment, or 0 for a full backfill); the caller holds the state it saved
InitState ==
    /\ BoardIdle
    /\ boardFile = <<>>
    /\ history = <<>>
    /\ artifacts = [sid \in Sids |-> <<>>]
    /\ rollouts = [f \in Files |-> <<>>]
    /\ now = TickS
    /\ state \in {[ignore_before_epoch |-> w, last_result |-> ZeroCounts] : w \in Watermarks}
    /\ stateFile = save_sessions_state(state)
    /\ match_mode = "ai"
    /\ pc = "idle"
    /\ pass = NoPass

NextState ==
    \/ LoadState /\ UNCHANGED StateVars
    \/ SaveHeldState /\ UNCHANGED StateVars
    \/ EnsureState /\ UNCHANGED StateVars
    \/ SyncCommand /\ UNCHANGED StateVars
    \/ Tick

SpecState == InitState /\ [][NextState]_vars

\* the documents written to a target
WriteDocs(target) ==
    IF target = "state"
    THEN {[ignore_before_epoch |-> TickS, last_result |-> c] : c \in LastResults}
    ELSE {[id |-> target, summary |-> sm, snippets |-> <<>>] :
             sm \in {<<>>, <<W("refactor"), W("parser")>>}}

\* the sessions state is initialised; no artifact is written yet, or one is
InitWrite ==
    /\ BoardIdle
    /\ boardFile = <<>>
    /\ history = <<>>
    /\ artifacts \in {[sid \in Sids |-> <<>>],
                      [sid \in Sids |-> IF sid = "s1"
                                        THEN <<[id |-> "s1", summary |-> <<>>, snippets |-> <<>>]>>
                                        ELSE <<>>]}
    /\ rollouts = [f \in Files |-> <<>>]
    /\ now = TickS
    /\ state = [ignore_before_epoch |-> TickS, last_result |-> ZeroCounts]
    /\ stateFile = <<state>>
    /\ match_mode = "ai"
    /\ pc = "idle"
    /\ pass = NoPass

NextWrite ==
    \/ \E target \in Targets : \E doc \in WriteDocs(target) :
          OpenTmp(target, doc) /\ UNCHANGED WriteVars
    \/ WriteTmp /\ UNCHANGED WriteVars
    \/ ReplaceTmp /\ UNCHANGED WriteVars
    \/ Interrupt /\ UNCHANGED WriteVars

SpecWrite == InitWrite /\ [][NextWrite]_vars

-----------------------------------------------------------------------------
(* The claims *)

\* C1 (as stated): on a board with well-formed region markers, after any sequence of
\* successful insert / replace / remove / move operations the text up to and including
\* AUTO_BEGIN and the text from AUTO_END to the end of the document are what they were.
C1_OutsideRegionPreserved ==
    LET a0 == find_auto_area(content0)
        before0 == Slice(content0, 0, a0.auto_start)
        after0 == Slice(content0, a0.auto_end, Len(content0))
    IN a0.ok =>
          /\ Slice(content, 0, a0.auto_start) = before0
          /\ Len(content) >= Len(after0)
          /\ Slice(content, Len(content) - Len(after0), Len(content)) = after0

\* the pass running, or the last one run, is a second run that follows the run before it
\* with no raw log added or modified in between
QuietSecondRun == pass.runs >= 2 /\ pass.quiet

\* the pass has not mutated the board: no link, no created task, the board file is what
\* it was when the pass started, no snapshot was added
NoBoardMutation ==
    /\ pass.c.linked_updates = 0
    /\ pass.c.created_unassigned = 0
    /\ boardFile = pass.file0
    /\ Len(history) = pass.snaps0

TaskPlaces(text) ==
    With(parse_board(text).sections, LAMBDA secs :
        UNION {{<<secs[i].tasks[j].uuid, secs[i].status>> : j \in 1 .. Len(secs[i].tasks)} :
                  i \in 1 .. Len(secs)})

\* C3 (as stated): after a pass that started on a board that parses, the board file still
\* parses and every task block parse_board returned before the pass is still returned,
\* with its identifier, in its section, whatever text the sessions contain.
C3_PassKeepsBoard ==
    (pc = "idle" /\ pass.runs >= 1 /\ pass.link_board /\ boardFile # <<>>)
        => /\ parse_board(boardFile[1]).ok
           /\ TaskPlaces(pass.file0[1]) \subseteq TaskPlaces(boardFile[1])

\* the step is the loop's iteration for the raw log f
Iteration(f) == pc = "loop" /\ f \in pass.todo /\ pass'.todo = pass.todo \ {f}

\* C4: the iteration for a raw log whose modification time is before
\* state.ignore_before_epoch writes no artifact, leaves the board buffer alone and counts
\* the log in skipped_old and nowhere else.
C4_WatermarkEnforced ==
    [][\A f \in Files :
          (Iteration(f) /\ rollouts[f][1].mtime < state.ignore_before_epoch)
              => /\ artifacts' = artifacts
                 /\ pass'.board_content = pass.board_content
                 /\ pass'.board_changed = pass.board_changed
                 /\ pass'.c = [pass.c EXCEPT !.skipped_old = @ + 1]]_vars

\* a pass that links has met a raw log older than the watermark, and has ended
C4_Witness ==
    /\ pc = "idle"
    /\ pass.link_board
    /\ pass.c.skipped_old > 0
    /\ \E f \in Files : rollouts[f] # <<>> /\ rollouts[f][1].mtime < state.ignore_before_epoch

\* the places of a text where the reference of sid stands in a sessions field
Attachments(text, sid) ==
    {i \in 1 .. Len(text) :
        /\ text[i] = REF(sid)
        /\ \E j \in 1 .. i - 2 :
              /\ j = 1 \/ text[j - 1] = NL
              /\ IsFieldLine(SubSeq(text, j, i), "sessions")
              /\ \A k \in j .. i : text[k] # NL}

\* the iteration for f goes past the watermark and the stability tests
PastTheSkips(f) ==
    /\ rollouts[f][1].mtime >= state.ignore_before_epoch
    /\ pass.now - rollouts[f][1].mtime >= stable_after_s

\* C5: a session reference stands in at most one sessions field of the board (file and
\* buffer), once; and an iteration that finds the reference in the buffer leaves the buffer
\* alone, links nothing, creates nothing, and, when it reaches the linking step (past the
\* skips, no exception), counts the session in skipped_already_linked.
C5_LinkedOnce ==
    /\ [](\A sid \in Sids :
             /\ boardFile # <<>> => Cardinality(Attachments(boardFile[1], sid)) <= 1
             /\ pass.board_content # <<>>
                   => Cardinality(Attachments(pass.board_content[1], sid)) <= 1)
    /\ [][\A f \in Files :
             (/\ Iteration(f)
              /\ pass.link_board
              /\ Contains(pass.board_content[1], <<REF(SidOf(f))>>))
                 => /\ pass'.board_content = pass.board_content
                    /\ pass'.c.linked_updates = pass.c.linked_updates
                    /\ pass'.c.created_unassigned = pass.c.created_unassigned
                    /\ (PastTheSkips(f) /\ pass'.c.errors = pass.c.errors)
                          => pass'.c.skipped_already_linked
                                = pass.c.skipped_already_linked + 1]_vars

\* one pass has met two raw logs of the session s1: the first was linked or made a task, the
\* second was counted as already linked
C5_Witness ==
    /\ pc = "idle"
    /\ pass.runs = 1
    /\ rollouts["f1"] # <<>> /\ rollouts["f3"] # <<>>
    /\ pass.c.linked_updates + pass.c.created_unassigned = 1
    /\ pass.c.skipped_already_linked = 1
    /\ Cardinality(Attachments(boardFile[1], "s1")) = 1

\* the iteration for f leaves the session's artifact as it is, counts the session in
\* skipped_existing and not in written, and, on a board that links and does not hold the
\* session's reference yet, attempts the linking: a link, a new task, or an exception
ArtifactKept(f) ==
    /\ artifacts' = artifacts
    /\ pass'.c.written = pass.c.written
    /\ pass'.c.skipped_existing = pass.c.skipped_existing + 1
    /\ (pass.link_board /\ ~Contains(pass.board_content[1], <<REF(SidOf(f))>>))
          => (pass'.c.linked_updates + pass'.c.created_unassigned + pass'.c.errors
                 = pass.c.linked_updates + pass.c.created_unassigned + pass.c.errors + 1)

\* C6 (as stated): once a session's artifact exists, an iteration for that session neither
\* rewrites it nor derives it again (skipped_existing, not written), and still attempts the
\* linking of a session not yet linked.
C6_ArtifactImmutable ==
    [][\A f \in Files :
          (Iteration(f) /\ PastTheSkips(f) /\ artifacts[SidOf(f)] # <<>>)
              => ArtifactKept(f)]_vars

\* C6 (amended): the same, for an artifact that the iteration can read and decode.
C6_ReadableArtifactImmutable ==
    [][\A f \in Files :
          (Iteration(f) /\ PastTheSkips(f) /\ artifacts[SidOf(f)] # <<>>
              /\ pass'.last.read_ok)
              => ArtifactKept(f)]_vars

\* a pass has met a session whose artifact existed and was read, and has linked it or made
\* its task: the artifact was written by an earlier pass whose board write failed
C6_Witness ==
    /\ pc = "loop"
    /\ pass.runs = 2
    /\ pass.last.existed /\ pass.last.read_ok
    /\ pass.c.skipped_existing = 1 /\ pass.c.written = 0
    /\ pass.c.linked_updates + pass.c.created_unassigned = 1

\* the snapshots written since the pass started
SnapshotsOfPass == Len(history) - pass.snaps0

\* C7: since the pass started, at most one snapshot and at most one board write were made,
\* the board write after its snapshot; while a raw log of the pass is still to be processed
\* nothing was written and the board file is what it was; and a snapshot was written only
\* if a link or a task creation changed the buffer.
C7_OneWriteAtEnd ==
    /\ SnapshotsOfPass <= 1
    /\ pass.writes <= SnapshotsOfPass
    /\ (pc = "loop" /\ pass.todo # {})
          => (SnapshotsOfPass = 0 /\ pass.writes = 0 /\ boardFile = pass.file0)
    /\ SnapshotsOfPass > 0
          => pass.c.linked_updates + pass.c.created_unassigned >= 1

\* a pass that linked or created for two sessions has ended with one snapshot and one write
C7_Witness ==
    /\ pc = "idle"
    /\ pass.c.linked_updates + pass.c.created_unassigned = 2
    /\ SnapshotsOfPass = 1
    /\ pass.writes = 1

\* write_board_with_history was called in this pass
Called == pass.before # <<>>

\* what the board file held when it was called: its content, or the default scaffold when
\* there was no file
Prior ==
    IF pass.before[1] = <<>> THEN build_default_board_markdown ELSE pass.before[1][1]

\* the pass's snapshot is written and holds Prior
SnapshotHoldsPrior == SnapshotsOfPass = 1 /\ history[Len(history)] = Prior

\* C8: once write_board_with_history is called, the board file is written only after the
\* snapshot, the snapshot holds what the board file held at the call (the scaffold if it
\* did not exist), and at every point, between the two writes too, that content is in the
\* board file or in the snapshot.
C8_SnapshotBeforeBoard ==
    Called =>
       /\ pc = "write_board" => (boardFile = pass.before[1] /\ SnapshotHoldsPrior)
       /\ pass.writes > 0 => SnapshotHoldsPrior
       /\ \/ pass.before[1] = <<>>
          \/ boardFile = pass.before[1]
          \/ SnapshotHoldsPrior

\* a board file that held a task has been overwritten with a different content, and the
\* snapshot holds what it held before
C8_Witness ==
    /\ pc = "save"
    /\ Called
    /\ pass.before[1] # <<>>
    /\ Prior # build_default_board_markdown
    /\ pass.writes = 1
    /\ boardFile # pass.before[1]
    /\ SnapshotHoldsPrior

\* C9: an iteration in whose try block an exception is raised adds exactly one to errors,
\* leaves the board buffer as it was, and the loop goes on with the raw logs that remain;
\* no other iteration changes errors; a failed board write adds one to errors too; a pass
\* ends only when no raw log remains, and ends by saving a SessionsState that holds the
\* counts of the pass (and the watermark it had).
C9_ErrorsCountedPassCompletes ==
    [][
       /\ \A f \in Files :
             Iteration(f)
                 => IF pass'.last.raised
                    THEN /\ pass'.c.errors = pass.c.errors + 1
                         /\ pass'.board_content = pass.board_content
                         /\ pass'.board_changed = pass.board_changed
                         /\ pc' = "loop"
                    ELSE pass'.c.errors = pass.c.errors
       /\ (pc \in {"loop", "write_board"} /\ pc' = "save")
             => pass'.c = [pass.c EXCEPT !.errors = IF pass'.writes > pass.writes
                                                     THEN @ ELSE @ + 1]
       /\ (pc # "idle" /\ pc' = "idle")
             => /\ pass.todo = {}
                /\ state'.last_result = pass.c
                /\ state'.ignore_before_epoch = state.ignore_before_epoch
                /\ stateFile' = <<state'>>
    ]_vars

\* in one pass the processing of s1 raised (no artifact, one error) and the raw log of s2
\* was processed after it
C9_Witness ==
    /\ pc = "loop"
    /\ pass.todo = {}
    /\ pass.c.errors = 1
    /\ ~pass.last.raised
    /\ artifacts["s1"] = <<>>
    /\ pass.last.f = "f2"
    /\ artifacts["s2"] # <<>>
    /\ pass.c.written = 1

\* a region marker is missing, or the END marker does not come after the BEGIN marker
MarkersBroken(text) ==
    LET begin_idx == Find(text, AUTO_BEGIN, 0)
        end_idx == Find(text, AUTO_END, 0)
    IN begin_idx = -1 \/ end_idx = -1 \/ end_idx <= begin_idx

\* the pass under way (or the last one) was started on a board file with broken markers
PassOnBrokenBoard == pass.runs > 0 /\ MarkersBroken(pass.file0[1])

\* C10: on a board text with a missing region marker or with the markers out of order,
\* parse_board, insert_task_block and replace_task_block fail and return no document; a pass
\* started on such a board file has linking disabled and no board buffer, leaves the board
\* file as it found it and writes no snapshot; its iteration for a session that has no
\* artifact, past the skips and without an exception, writes the artifact and counts it;
\* and the pass ends by saving its counts.
C10_MalformedBoardDisablesLinking ==
    /\ [](/\ (boardFile # <<>> /\ MarkersBroken(boardFile[1]))
              => /\ ~parse_board(boardFile[1]).ok
                 /\ \A st \in StatusSet :
                       ~insert_task_block(boardFile[1], st, NONE, TaskA).ok
                 /\ ~replace_task_block(boardFile[1], "a", TaskA).ok
          /\ PassOnBrokenBoard
              => /\ ~pass.link_board
                 /\ pass.board_content = <<>>
                 /\ ~pass.board_changed
                 /\ boardFile = pass.file0
                 /\ SnapshotsOfPass = 0
                 /\ pass.writes = 0
                 /\ pc # "write_board")
    /\ [][PassOnBrokenBoard
            => /\ \A f \in Files :
                     (/\ Iteration(f)
                      /\ PastTheSkips(f)
                      /\ artifacts[SidOf(f)] = <<>>
                      /\ ~pass'.last.raised)
                         => /\ artifacts'[SidOf(f)] # <<>>
                            /\ pass'.c.written = pass.c.written + 1
               /\ pc' \notin {"write_board", "save"}
               /\ (pc = "loop" /\ pc' = "idle")
                     => /\ pass.todo = {}
                        /\ state'.last_result = pass.c]_vars

\* a pass started on a board file without its END marker has written the artifact of a new
\* session and has ended: the board file is as it was and there is no snapshot
C10_Witness ==
    /\ pc = "idle"
    /\ pass.runs > 0
    /\ pass.file0 = <<BoardNoEnd>>
    /\ boardFile = <<BoardNoEnd>>
    /\ pass.c.written = 1
    /\ artifacts["s1"] # <<>>
    /\ history = <<>>
    /\ state.last_result = pass.c

\* the identifiers of the task blocks parse_board returns, in the order it returns them
ParsedIds(text) ==
    With(AllTasks(parse_board(text)), LAMBDA ts : [i \in 1 .. Len(ts) |-> ts[i].uuid])

\* no two task blocks parse_board returns for the text share an identifier
UniqueIds(text) ==
    With(ParsedIds(text), LAMBDA ids :
        \A i \in 1 .. Len(ids) : \A j \in 1 .. Len(ids) : ids[i] = ids[j] => i = j)

\* C11 (as stated): in every board reached from the default scaffold by insert / replace /
\* remove / move operations, with blocks built by build_task_block under a drawn or a
\* caller-supplied identifier, parse_board returns no two task blocks with one identifier.
C11_IdentifiersUnique ==
    (content0 = build_default_board_markdown /\ parse_board(content).ok)
        => UniqueIds(content)

\* every task block parse_board returns carries a status field that names the section the
\* block stands in, and is reported with that status
StatusInSync(text) ==
    With(parse_board(text), LAMBDA parsed :
        parsed.ok =>
            \A i \in 1 .. Len(parsed.sections) :
                \A j \in 1 .. Len(parsed.sections[i].tasks) :
                    /\ _parse_status_field(parsed.sections[i].tasks[j].raw)
                          = parsed.sections[i].status
                    /\ parsed.sections[i].tasks[j].status = parsed.sections[i].status)

\* C12 (as stated): after every insert, replace, remove and move, each task block's status
\* field equals the status of the section that encloses it, and parse_board reports the
\* task with the status of the section it was found in.
C12_StatusMatchesSection == StatusInSync(content)

\* the step is a BoardToolkit call that names a task identifier no block of the board read
\* carries (the board read has its markers)
CallOnMissingTask ==
    /\ toolkit'.n = toolkit.n + 1
    /\ toolkit'.uuid # NONE
    /\ parse_board(_read_board).ok
    /\ ~HasTask(parse_board(_read_board), LowerStr(toolkit'.uuid))

\* C13 (as stated): replace_task_block with an identifier that is not on the board raises
\* and returns no document; a BoardToolkit call (get, update, move, append_session,
\* archive) that names such an identifier ends with an explicit failure result, not with an
\* exception, and leaves the board's content, the snapshots and the archive as they were.
C13_MissingTaskIsFailureResult ==
    /\ [](\A u \in ToolUuids :
             ~HasTask(parse_board(_read_board), LowerStr(u))
                 => ~replace_task_block(_read_board, u, TaskA).ok)
    /\ [][CallOnMissingTask
            => /\ toolkit'.result = "error"
               /\ boardFile' = <<_read_board>>
               /\ history' = history
               /\ toolkit'.archive = toolkit.archive]_vars

\* the iteration for f reaches the matching: the pass links, the raw log is past the skips,
\* the board buffer does not hold the session's reference, and no exception is raised
ReachesMatching(f) ==
    /\ Iteration(f)
    /\ PastTheSkips(f)
    /\ pass.link_board
    /\ pass.board_content # <<>>
    /\ ~Contains(pass.board_content[1], SessionRef(SidOf(f)))
    /\ ~pass'.last.raised

\* the match the iteration got clears the threshold of its method
ClearsThreshold(ai, heur) ==
    IF ai.uuid # NONE
    THEN (IF ai.conf = -1 THEN 0 ELSE ai.conf) >= ai_confidence_threshold
    ELSE heur.uuid # NONE
         /\ heur.score.num * match_threshold.den >= match_threshold.num * heur.score.den

\* between buf and next the reference of sid was appended to the task tuid: the reference
\* stands in one sessions field, inside the block of tuid, and the blocks are the same
\* tasks in the same sections
LinkedTo(buf, next, sid, tuid) ==
    With(Find(next, <<TB(tuid)>>, 0), LAMBDA b :
    With(Find(next, <<TE(tuid)>>, 0), LAMBDA e :
        /\ HasTask(parse_board(buf), tuid)
        /\ Cardinality(TaskMarkers(next)) = Cardinality(TaskMarkers(buf))
        /\ Cardinality(Attachments(next, sid)) = 1
        /\ \A at \in Attachments(next, sid) : b < at /\ at <= e
        /\ TaskPlaces(next) = TaskPlaces(buf)))

\* between buf and next one task block was added and nothing else changed: the block stands
\* between the Unassigned heading and the next heading, has the status Unassigned, the
\* tags session and codex, and the reference of sid in its sessions field
CreatedUnassigned(buf, next, sid) ==
    /\ Cardinality(IdsIn(next) \ IdsIn(buf)) = 1
    /\ Cardinality(TaskMarkers(next)) = Cardinality(TaskMarkers(buf)) + 1
    /\ With(CHOOSE id \in IdsIn(next) \ IdsIn(buf) : TRUE, LAMBDA id :
       With(Find(next, <<TB(id)>>, 0), LAMBDA b :
       With(Find(next, <<TE(id)>>, 0), LAMBDA e :
       With(Slice(next, b, e + 2), LAMBDA block :
           /\ e > b
           /\ Slice(next, 0, b) \o Slice(next, e + 2, Len(next)) = buf
           /\ Find(next, <<H2, St("Unassigned")>>, 0) < b
           /\ b < Find(next, <<H2, St("Todo")>>, 0)
           /\ _parse_status_field(block) = "Unassigned"
           /\ _parse_tags(block) = << <<W("session")>>, <<W("codex")>> >>
           /\ Cardinality(Attachments(block, sid)) = 1))))

AiCallFailed(f) ==
    /\ Iteration(f)
    /\ PastTheSkips(f)
    /\ pass'.last.sum_failed \/ pass'.last.match_failed
    /\ pass'.faults = pass.faults
    /\ (pass.link_board /\ pass.board_content # <<>>) => parse_board(pass.board_content[1]).ok

\* the iteration goes on to the next raw log with no error counted; after a failed
\* summarization the artifact is written with the fallback summary
FailureAbsorbed(f) ==
    /\ pc' = "loop"
    /\ ~pass'.last.raised
    /\ pass'.c.errors = pass.c.errors
    /\ pass'.last.sum_failed =>
          /\ artifacts'[SidOf(f)] # <<>>
          /\ artifacts'[SidOf(f)][1].summary = _fallback_summary(MessagesOf(f))
          /\ pass'.c.written = pass.c.written + 1

\* the session was linked or made a task as the heuristic matcher decides
HeuristicDecides(f) ==
    With(pass.board_content[1], LAMBDA buf :
    With(pass'.board_content[1], LAMBDA next :
    With(_best_task_match(buf, artifacts'[SidOf(f)][1]), LAMBDA heur :
        /\ pass'.last.heur = heur
        /\ IF ClearsThreshold(NoAnswer, heur)
           THEN /\ pass'.c.linked_updates = pass.c.linked_updates + 1
                /\ LinkedTo(buf, next, SidOf(f), heur.uuid)
           ELSE /\ pass'.c.created_unassigned = pass.c.created_unassigned + 1
                /\ CreatedUnassigned(buf, next, SidOf(f)))))

\* the session was made a task and the heuristic matcher was not consulted
MadeTaskUnmatched(f) ==
    /\ pass'.last.heur = NoMatch
    /\ pass'.c.created_unassigned = pass.c.created_unassigned + 1
    /\ pass'.c.linked_updates = pass.c.linked_updates
    /\ CreatedUnassigned(pass.board_content[1], pass'.board_content[1], SidOf(f))

UuidsOf(candidates) == {candidates[i].uuid : i \in 1 .. Len(candidates)}

\* the candidates submitted in the final call of the tournament the call ran
SubmittedLast(candidates, resps) ==
    IF Len(candidates) <= 5 THEN candidates
    ELSE FinalCandidates(candidates, Winners(_chunked(candidates, 5), resps, 1, {}))

\* C16: for every answer of the external model, a call of _ai_task_match returns no match
\* or the identifier of a candidate submitted in that call; _ai_match_task_uuid (single
\* call and tournament) returns no match or the identifier of a candidate submitted in its
\* last call, which is a candidate of the board; an answer that names another identifier
\* returns no match.
C16_MatchIsACandidate ==
    /\ \A cs \in CandidateLists, r \in MatchResponses :
          With(_ai_task_match(cs, r), LAMBDA m :
              /\ m.uuid = NONE \/ m.uuid \in UuidsOf(cs)
              /\ (r.target # NONE /\ LowerStr(r.target) \notin UuidsOf(cs)) => m.uuid = NONE)
    /\ (call.fn = "_ai_match_task_uuid" /\ call.ret # <<>>) =>
          With(call.ret[1].uuid, LAMBDA u :
          With(SubmittedLast(call.candidates, call.resps), LAMBDA last :
              /\ u = NONE \/ (u \in UuidsOf(last) /\ u \in UuidsOf(call.candidates))
              /\ LET r == call.resps[Len(call.resps)]
                 IN (r.target # NONE /\ LowerStr(r.target) \notin UuidsOf(last)) => u = NONE))

\* a tournament returned: the first chunk's call named a candidate of the second chunk and
\* got no match, the second chunk's call named its candidate, and the final call, which
\* named a candidate of the first chunk that won nothing, returned no match
C16_Witness ==
    /\ call.fn = "_ai_match_task_uuid"
    /\ call.ret # <<>>
    /\ Len(call.candidates) = 6
    /\ call.resps[1].target = "c4"
    /\ call.resps[2].target = "c4"
    /\ call.resps[3].target = "a"
    /\ call.ret[1].uuid = NONE

\* C17: the watermark the state file holds never changes, whatever is saved, loaded,
\* ensured (force = False) or synchronised, and a load returns the watermark the file holds.
C17_WatermarkStable ==
    /\ [][stateFile # <<>> =>
             /\ stateFile' # <<>>
             /\ stateFile'[1].ignore_before_epoch = stateFile[1].ignore_before_epoch]_vars
    /\ [][call'.fn = "load_sessions_state" =>
             state'.ignore_before_epoch = stateFile[1].ignore_before_epoch]_vars

\* C18: at every point of a write of the sessions state or of an artifact, an interruption
\* included, the file at the target path is the whole previous document (or missing, if
\* there was none) or the whole new document; no file at a target path is ever cut short.
\* Before the rename it is the previous one, after it the new one.
C18_AtomicWrites ==
    /\ \A target \in Targets : TargetFile(target) # <<Partial>>
    /\ call.fn = "_write_json_atomic" =>
          /\ TargetFile(call.target) \in {call.prev, <<call.doc>>}
          /\ call.at \in {"open", "written", "killed"} => TargetFile(call.target) = call.prev
          /\ call.at = "done" => TargetFile(call.target) = <<call.doc>>

\* a write of the sessions state died after its temporary file was opened, and the state
\* file still holds the document of the write before it, which was completed
C18_Witness ==
    /\ call.fn = "_write_json_atomic"
    /\ call.target = "state"
    /\ call.at = "killed"
    /\ tmpFiles["state"] = <<Partial>>
    /\ stateFile = call.prev
    /\ stateFile # <<state>>
    /\ stateFile[1] # call.doc

\* the tasks parse_board returns for next whose identifier no task of text carries
NewTasks(text, next) ==
    With(AllTasks(parse_board(text)), LAMBDA before :
    With(AllTasks(parse_board(next)), LAMBDA after :
        LET IsNew(t) == \A j \in 1 .. Len(before) : before[j].uuid # t.uuid
        IN SelectSeq(after, IsNew)))

\* C19: after an insert that succeeded, the board is parsed, and the inserted task (the
\* task whose identifier is new on the board) is replaced with the block the parse returns
\* for it: the replace succeeds and the text it returns is the text after the insert.
C19_ReplaceIdenticalIsNoOp ==
    [][(lastOp'.op = "insert" /\ lastOp'.ok /\ lastOp'.n = lastOp.n + 1) =>
          With(NewTasks(content, content'), LAMBDA new :
              \A i \in 1 .. Len(new) :
                  replace_task_block(content', new[i].uuid, new[i].raw) = Ok(content'))]_vars

\* one insert into the default scaffold: the task parsed is the one inserted, its block
\* takes in the blank line that follows it, and replacing it with that block returns the
\* text unchanged
C19_Witness ==
    /\ content0 = build_default_board_markdown
    /\ lastOp = [op |-> "insert", ok |-> TRUE, n |-> 1]
    /\ With(AllTasks(parse_board(content)), LAMBDA ts :
          /\ Len(ts) = 1
          /\ Len(ts[1].raw) > 2
          /\ ts[1].raw[Len(ts[1].raw)] = NL
          /\ ts[1].raw[Len(ts[1].raw) - 1] = NL
          /\ replace_task_block(content, ts[1].uuid, ts[1].raw) = Ok(content))

\* C20: for all token lists a and b the score _jaccard returns is 0.0 when the token set
\* of a or of b is empty, 1.0 when the two token sets are equal and not empty, equal to
\* the score of b and a, and between 0 and 1.
C20_JaccardProperties ==
    (call.fn = "_jaccard" /\ call.ret # <<>>) =>
        With(call.ret[1], LAMBDA score :
        With(TokenSet(call.a_tokens), LAMBDA a :
        With(TokenSet(call.b_tokens), LAMBDA b :
        With(_jaccard(b, a), LAMBDA swapped :
            /\ score.den > 0
            /\ (a = {} \/ b = {}) => score.num = 0
            /\ (a = b /\ a # {}) => score.num = score.den
            /\ score.num * swapped.den = swapped.num * score.den
            /\ 0 <= score.num /\ score.num <= score.den))))

\* a call returned a score strictly between 0 and 1 for two lists with a token in common,
\* one of them with a repeated token
C20_Witness ==
    /\ call.fn = "_jaccard"
    /\ call.ret # <<>>
    /\ call.a_tokens = <<"fix", "fix">>
    /\ call.b_tokens = <<"fix", "login">>
    /\ call.ret[1] = [num |-> 1, den |-> 2]

\* the identifiers of a list of tasks, in order
UuidSeq(tasks) == [i \in 1 .. Len(tasks) |-> tasks[i].uuid]

\* a sequence without its k-th element
RemoveAt(seq, k) == SubSeq(seq, 1, k - 1) \o SubSeq(seq, k + 1, Len(seq))

\* the new task stands in the section sec1 of the board after the insert where the hint
\* and the section sec0 of the board before it say: at index k, inside the extent
PlacedAt(sec0, sec1, k, before_uuid) ==
    LET t == sec1.tasks[k]
        hits == {i \in 1 .. Len(sec0.tasks) :
                    before_uuid # NONE /\ sec0.tasks[i].uuid = LowerStr(before_uuid)}
    IN /\ sec1.section_start <= t.start
       /\ t.end <= sec1.section_end
       /\ UuidSeq(RemoveAt(sec1.tasks, k)) = UuidSeq(sec0.tasks)
       /\ IF hits # {}
          THEN /\ k = CHOOSE i \in hits : \A j \in hits : i <= j
               /\ t.end = sec1.tasks[k + 1].start
          ELSE IF Len(sec0.tasks) > 0
          THEN /\ k = Len(sec1.tasks)
               /\ sec1.tasks[k - 1].end = t.start
          ELSE /\ k = 1
               /\ t.start = sec1.section_start

\* C21 (as stated): after an insert_task_block that succeeded the board parses, and in
\* the target section (normalize_status(to_status) or Unassigned) the new block stands
\* directly before the task the hint names, if that task is in the section; else directly
\* after the section's last task; else at the section's start.  The block lies between
\* section_start and section_end, the other tasks of the section keep their order, and
\* the tasks of the other sections are what they were.
C21_InsertionPoint ==
    (call.fn = "insert_task_block" /\ call.ret # <<>> /\ call.ret[1].ok) =>
        With(parse_board(call.content), LAMBDA old :
        With(parse_board(call.ret[1].val), LAMBDA new :
            LET status == IF normalize_status(call.to_status) # NONE
                          THEN call.to_status ELSE "Unassigned"
            IN /\ new.ok
               /\ HasSection(new, status)
               /\ With(SectionGet(old, status), LAMBDA sec0 :
                  With(SectionGet(new, status), LAMBDA sec1 :
                      /\ \E k \in 1 .. Len(sec1.tasks) :
                            /\ sec1.tasks[k].uuid = call.id
                            /\ PlacedAt(sec0, sec1, k, call.before_uuid)
                      /\ \A i \in 1 .. Len(old.sections) :
                            old.sections[i].status # status =>
                                /\ HasSection(new, old.sections[i].status)
                                /\ UuidSeq(SectionGet(new, old.sections[i].status).tasks)
                                      = UuidSeq(old.sections[i].tasks)))))

\* the lines of the managed region of a text: what stands between the two region markers,
\* without the rest of the line of AUTO_BEGIN and the start of the line of AUTO_END
RegionLines(text) ==
    With(find_auto_area(text), LAMBDA area :
    With(Split(Slice(text, area.auto_start, area.auto_end), NL), LAMBDA lines :
        SubSeq(lines, 2, Len(lines) - 1)))

\* the number of empty lines among lines
BlankLines(lines) == Cardinality({i \in 1 .. Len(lines) : lines[i] = <<>>})

\* the most empty lines that stand in a row between the END marker of one task block and
\* the BEGIN marker of the next
WidestGap(lines) ==
    LET IsEnd(i) == lines[i] # <<>> /\ lines[i][1].k = "te"
        IsBegin(i) == lines[i] # <<>> /\ lines[i][1].k = "tb"
        gaps == {j - i - 1 : i \in 1 .. Len(lines), j \in 1 .. Len(lines)} \cap
                {g \in 0 .. Len(lines) :
                    \E i \in 1 .. Len(lines) :
                        /\ IsEnd(i)
                        /\ i + g + 1 <= Len(lines)
                        /\ IsBegin(i + g + 1)
                        /\ \A m \in i + 1 .. i + g : lines[m] = <<>>}
    IN IF gaps = {} THEN 0 ELSE CHOOSE g \in gaps : \A h \in gaps : h <= g

\* C22: starting from the default scaffold, after any sequence of insert_task_block (with
\* blocks built by build_task_block) and replace_task_block the managed region has no more
\* empty lines than the scaffold has, and between two task blocks stands at most one.
C22_NoBlankLineGrowth ==
    find_auto_area(content).ok =>
        With(RegionLines(content), LAMBDA lines :
            /\ BlankLines(lines) <= BlankLines(RegionLines(build_default_board_markdown))
            /\ WidestGap(lines) <= 1)

\* two inserts into one section of the scaffold: the two blocks stand with one empty line
\* between them and the region has as many empty lines as the scaffold
C22_Witness ==
    /\ lastOp = [op |-> "insert", ok |-> TRUE, n |-> 2]
    /\ Cardinality(TaskMarkers(content)) = 2
    /\ With(RegionLines(content), LAMBDA lines :
          /\ WidestGap(lines) = 1
          /\ BlankLines(lines) = BlankLines(RegionLines(build_default_board_markdown)))

\* the answers of the chunk calls of a tournament over candidates, one per chunk
ChunkAnswers(candidates, resps) ==
    With(_chunked(candidates, 5), LAMBDA chunks :
        [i \in 1 .. Len(chunks) |-> _ai_task_match(chunks[i], resps[i])])

\* the chunks that produced a winner
ChunksWithWinner(candidates, resps) ==
    With(ChunkAnswers(candidates, resps), LAMBDA ans :
        {i \in DOMAIN ans : ans[i].uuid # NONE})

\* a tournament returned
TournamentReturned ==
    /\ call.fn = "_ai_match_task_uuid"
    /\ call.ret # <<>>
    /\ Len(call.candidates) > 5

\* C23 as stated: when exactly one chunk produced a winner, that winner is the overall
\* result of the tournament.
C23_SingleWinnerIsResult ==
    TournamentReturned =>
        With(ChunkAnswers(call.candidates, call.resps), LAMBDA ans :
        With(ChunksWithWinner(call.candidates, call.resps), LAMBDA won :
            Cardinality(won) = 1 => \A i \in won : call.ret[1].uuid = ans[i].uuid))

\* C23: in a tournament, when no chunk produced a winner the result is no match; when one
\* or more chunks produced a winner a final call is made with exactly the winners, ranked
\* by descending confidence of their chunk answers (a missing confidence counts 0), and
\* the answer of that call is the overall result, also when there is one winner only.
C23_TournamentFinal ==
    TournamentReturned =>
        With(ChunkAnswers(call.candidates, call.resps), LAMBDA ans :
        With(ChunksWithWinner(call.candidates, call.resps), LAMBDA won :
        With(SubmittedLast(call.candidates, call.resps), LAMBDA final :
            LET Score(u) == CHOOSE sc \in 0 .. 100 :
                                \E i \in won : /\ ans[i].uuid = u
                                               /\ sc = IF ans[i].conf = -1 THEN 0
                                                       ELSE ans[i].conf
            IN IF won = {} THEN call.ret[1] = NoAnswer
               ELSE /\ UuidsOf(final) = {ans[i].uuid : i \in won}
                    /\ Len(final) = Cardinality(won)
                    /\ \A m \in 1 .. Len(final) - 1 :
                          Score(final[m].uuid) >= Score(final[m + 1].uuid)
                    /\ call.ret[1] = _ai_task_match(final, call.resps[Len(call.resps)]))))

\* both chunks produced a winner, the second with the higher confidence: the final call
\* got the second chunk's winner first and named the first chunk's winner
C23_Witness ==
    /\ TournamentReturned
    /\ call.resps[1].target = "a"
    /\ call.resps[2] = [fail |-> FALSE, target |-> "c4", conf |-> 95]
    /\ call.resps[3].target = "a"
    /\ SubmittedLast(call.candidates, call.resps)[1].uuid = "c4"
    /\ call.ret[1].uuid = "a"

\* C24: _chunked(items, size) cuts the list into consecutive chunks: every chunk but the
\* last has exactly max(1, size) items, the last has from 1 to max(1, size), and the
\* chunks concatenated in order are the list.
C24_ChunkedPartitions ==
    (call.fn = "_chunked" /\ call.ret # <<>>) =>
        With(call.ret[1], LAMBDA chunks :
            LET k == IF call.size >= 1 THEN call.size ELSE 1
            IN /\ \A i \in 1 .. Len(chunks) - 1 : Len(chunks[i]) = k
               /\ \A i \in 1 .. Len(chunks) : Len(chunks[i]) >= 1 /\ Len(chunks[i]) <= k
               /\ Flatten(chunks) = call.items)

\* four items cut by three: one full chunk and a shorter last chunk
C24_Witness ==
    /\ call.fn = "_chunked"
    /\ call.ret # <<>>
    /\ call.items = <<"a", "b", "b", "a">>
    /\ call.size = 3
    /\ call.ret[1] = << <<"a", "b", "b">>, <<"a">> >>

\* the rank of a status in the priority order Doing, Todo, Review, Unassigned, Done
Rank(status) ==
    CASE status = "Doing" -> 1
      [] status = "Todo" -> 2
      [] status = "Review" -> 3
      [] status = "Unassigned" -> 4
      [] status = "Done" -> 5
      [] OTHER -> 6

\* the place in the text of the BEGIN marker of the task with this identifier
MarkerAt(text, uuid) == CHOOSE i \in TaskMarkers(text) : LowerStr(text[i].v) = uuid

\* C25: on a board made from the scaffold by inserting tasks in any order of statuses,
\* each into the section of its status, _list_task_candidates returns every task of the
\* board exactly once, by status in the order Doing, Todo, Review, Unassigned, Done, and
\* within one status in the order of the document.
C25_CandidatesOrdered ==
    (call.fn = "_list_task_candidates" /\ call.ret # <<>>) =>
        With(call.ret[1], LAMBDA cands :
            /\ Len(cands) = Len(call.order)
            /\ Len(cands) = Cardinality(TaskMarkers(call.content))
            /\ {cands[i].uuid : i \in 1 .. Len(cands)} = IdsIn(call.content)
            /\ \A i \in 1 .. Len(cands) : \A j \in i + 1 .. Len(cands) :
                  /\ Rank(cands[i].status) <= Rank(cands[j].status)
                  /\ cands[i].status = cands[j].status =>
                        MarkerAt(call.content, cands[i].uuid)
                            < MarkerAt(call.content, cands[j].uuid))

\* tasks inserted into Todo, Done and Doing, in that order: the candidates come back as
\* the third, the first and the second task inserted
C25_Witness ==
    /\ call.fn = "_list_task_candidates"
    /\ call.ret # <<>>
    /\ call.order = <<"Todo", "Done", "Doing">>
    /\ [i \in 1 .. 3 |-> call.ret[1][i].uuid] = <<"n3", "n1", "n2">>
    /\ [i \in 1 .. 3 |-> call.ret[1][i].status] = <<"Doing", "Todo", "Done">>

\* the messages of a call of _select_snippets that are not the harness's
Remaining(messages) ==
    LET NotHarness(m) == ~_is_harness_context_message(m.text)
    IN SelectSeq(messages, NotHarness)

\* C26: with limit N, when more than N messages remain after the harness's are filtered
\* out, the snippets are the first of them followed by the most recent N - 1, in their
\* order; when from 1 to N remain, the snippets are all of them; the result never has more
\* than N snippets.
C26_SnippetSelection ==
    (call.fn = "_select_snippets" /\ call.ret # <<>>) =>
        With(Remaining(call.messages), LAMBDA f :
            LET n == Len(f)
                N == call.max_snippets
            IN /\ n > N => call.ret[1] = <<f[1]>> \o SubSeq(f, n - N + 2, n)
               /\ (n >= 1 /\ n <= N) => call.ret[1] = f
               /\ Len(call.ret[1]) <= N)

\* a line of one of the two recognized event shapes: session_meta, response_item/message
Recognized(line) ==
    /\ line.json = "object"
    /\ line.pdict
    /\ \/ line.type = "session_meta"
       \/ line.type = "response_item" /\ line.ptype = "message"

\* C27: parse_rollout_messages does not fail on any content of a line: lines that are not
\* well-formed JSON, and well-formed lines of no recognized event shape, are ignored, and
\* the messages and the metadata returned are those of the recognized lines alone, in
\* their order.
C27_ParsingNeverFails ==
    (call.fn = "parse_rollout_messages" /\ call.ret # <<>>) =>
        /\ call.ret[1].ok
        /\ With(parse_rollout_messages(SelectSeq(call.lines, Recognized)), LAMBDA r :
              /\ call.ret[1].val.messages = r.val.messages
              /\ call.ret[1].val.meta = r.val.meta)

\* the modification times a raw log can carry
MTimes == {0} \cup {t \in TickS .. MaxTime : t % TickS = 0}

\* the pass under way reaches the raw log f, which was modified at m, less than
\* stable_after_s before the pass read the clock, and not before the watermark
ReachesUnstable(f, m) ==
    /\ pc = "loop"
    /\ f \in pass.todo
    /\ rollouts[f] = <<[mtime |-> m]>>
    /\ m >= pass.ignore_before
    /\ pass.now - m < stable_after_s

\* the pass under way has just skipped the raw log f, modified at m, as unstable
SkippedUnstable(f, m) ==
    /\ pc = "loop"
    /\ pass.last.f = f
    /\ rollouts[f] = <<[mtime |-> m]>>
    /\ m >= pass.ignore_before
    /\ pass.now - m < stable_after_s

\* the loop of sessions_watch has come to its end: no pass and no sleep can follow
LoopStopped ==
    /\ pc = "idle"
    /\ \/ pass.runs >= MaxPasses
       \/ now + TickS > MaxTime /\ pass.runs > 0 /\ now <= pass.now

LinkOutcomes == {"skipped_already_linked", "linked_updates", "created_unassigned", "errors"}

\* C29: an iteration of a linking pass that goes past the skips adds one to exactly one of
\* skipped_already_linked, linked_updates, created_unassigned and errors, and nothing to
\* the other three; and the board buffer of a pass is marked changed exactly when
\* linked_updates + created_unassigned > 0.
C29_OutcomeAccounting ==
    /\ [][\A f \in Files :
             (/\ Iteration(f)
              /\ PastTheSkips(f)
              /\ SidOf(f) # NONE
              /\ pass.link_board
              /\ pass.board_content # <<>>)
                 => \E o \in LinkOutcomes :
                       /\ pass'.c[o] = pass.c[o] + 1
                       /\ \A other \in LinkOutcomes \ {o} : pass'.c[other] = pass.c[other]]_vars
    /\ [](pass.board_changed <=> pass.c.linked_updates + pass.c.created_unassigned > 0)

\* a pass met two raw logs of one session: the first made the buffer change, the second
\* found the reference in the buffer
C29_Witness ==
    /\ pc = "loop"
    /\ pass.todo = {}
    /\ pass.board_changed
    /\ pass.c.linked_updates + pass.c.created_unassigned = 1
    /\ pass.c.skipped_already_linked = 1
    /\ pass.c.errors = 0

\* the AI matcher named a task with a confidence that is missing or below the threshold
NamedBelowThreshold(ai) ==
    /\ ai.uuid # NONE
    /\ ai.conf = -1 \/ ai.conf < ai_confidence_threshold

\* C30: in hybrid mode, an iteration that reaches the matching gets a heuristic match only
\* when the AI matcher returned no identifier; and when the AI matcher named a task with a
\* confidence below ai_confidence_threshold, or with none, the heuristic matcher returns
\* nothing to the iteration, nothing is linked and one task is made in Unassigned.
C30_HeuristicOnlyWithoutAiMatch ==
    [][\A f \in Files :
          (ReachesMatching(f) /\ match_mode = "hybrid") =>
              /\ pass'.last.heur # NoMatch => pass'.last.ai.uuid = NONE
              /\ NamedBelowThreshold(pass'.last.ai) =>
                    /\ pass'.last.heur = NoMatch
                    /\ pass'.c.linked_updates = pass.c.linked_updates
                    /\ pass'.c.created_unassigned = pass.c.created_unassigned + 1
                    /\ CreatedUnassigned(pass.board_content[1], pass'.board_content[1],
                                         SidOf(f))]_vars

\* in hybrid mode the first iteration of a pass that reached the matching got the task a
\* from the AI matcher with a confidence below the threshold: a task was made, although
\* the heuristic matcher, asked about the same buffer and session, returns a task with a
\* score at or above match_threshold
C30_Witness ==
    /\ pc = "loop"
    /\ match_mode = "hybrid"
    /\ pass.last.f = "f1"
    /\ pass.last.ai = [uuid |-> "a", conf |-> 50]
    /\ pass.last.heur = NoMatch
    /\ pass.c.created_unassigned = 1
    /\ pass.c.linked_updates = 0
    /\ pass.c.skipped_already_linked = 0
    /\ artifacts["s1"] # <<>>
    /\ With(_best_task_match(pass.buf0[1], artifacts["s1"][1]), LAMBDA h :
          h.uuid = "a" /\ FracGe(h.score, match_threshold))

=============================================================================
